---- MODULE Spec2Model ----
(***************************************************************************)
(* SustainaReview: the relational schema, the Zustand store and the views  *)
(* of the single-page client, as state machines.  One specification per    *)
(* subsystem: SpecReview (review submission), SpecAuth (registration and   *)
(* login), SpecBookmark, SpecCatalog (product queries), SpecListing        *)
(* (UV_ProductListing's URL/store synchronisation) and SpecDb (schema      *)
(* constraints and cascades).                                              *)
(***************************************************************************)
EXTENDS Integers, Sequences, FiniteSets, TLC

\* ------------------------------------------------------------------ bounds
\* Rows the reviews table grows to in SpecReview.
MaxReviews == 1
\* Review submissions of the view in flight at once.
MaxInFlight == 2
\* Edits of the review form (typing, star clicks, checkbox) in one session.
MaxEdits == 5

\* Products created on top of the seeded catalogue in SpecCatalog.
MaxNewProducts == 1
\* Product fetches UV_ProductListing starts in one run.
MaxFetches == 2
\* Calls of initialize_app in one run.
MaxInits == 3
\* Vote requests UV_ProductDetail sends in one run.
MaxVotes == 4
\* The highest page the pagination controls ask for.
MaxPage == 3
\* The pages of the answers UV_SearchResults shows.
SearchTotalPages == 2
\* Files in one selection of the photo input, and selections in one visit.
MaxFiles == 2
MaxSelections == 2

\* ------------------------------------------------------- values and helpers
\* number | null, string | null: the empty tuple is null, <<v>> is v.
None == <<>>
Some(v) == <<v>>
IsNone(o) == o = <<>>
Val(o) == o[1]

Range(s) == {s[i] : i \in 1..Len(s)}

\* The texts the modelled user types, over a blank and a visible character:
\* nothing, blanks only, and a text with blanks around it.
TextInputs == {<<>>, <<" ">>, <<" ", "x", " ">>}

RECURSIVE trimStart(_)
trimStart(s) ==
    IF s # <<>> /\ Head(s) = " " THEN trimStart(Tail(s)) ELSE s

RECURSIVE trimEnd(_)
trimEnd(s) ==
    IF s # <<>> /\ s[Len(s)] = " " THEN trimEnd(SubSeq(s, 1, Len(s) - 1)) ELSE s

\* String.prototype.trim
trim(s) == trimEnd(trimStart(s))

\* StarRating: the stars a user can click are 1..maxRating.
maxRating == 5
Stars == 1..maxRating
\* The stars the modelled user clicks: the first and the last.
StarInputs == {1, maxRating}

\* Remove the i-th element of a sequence.
RemoveAt(s, i) == SubSeq(s, 1, i - 1) \o SubSeq(s, i + 1, Len(s))

VARIABLES
    reviews,      \* table reviews: the rows inserted after the seed, in order
    rs,           \* UV_ReviewSubmission's local state
    reviewNet,    \* the view's review submissions in flight, requests and responses
    edits,        \* edits of the review form so far in this session
    users,        \* table users: a sequence of rows, in insertion order
    auth,         \* the store's auth slice
    notifications,\* the store's notifications slice
    appInit,      \* where initialize_app stands: "mounting", "running", "done"
    loginNet,     \* UV_Login's login attempts in flight
    regErrors,    \* UV_Registration's validation_errors: the fields in error
    regNet,       \* UV_Registration's registrations in flight
    products,     \* table products: a sequence of rows, in insertion order
    user_bookmarks, \* table user_bookmarks: a sequence of rows
    bmPosted,     \* history: the (user, product) pairs whose last answered call
                  \* that changed the table was a POST
    bv,           \* UV_ProductDetail's bookmark state
    bmNet,        \* UV_ProductDetail's bookmark calls in flight
    answers,      \* the last two answers of GET /products, oldest first
    url,          \* UV_ProductListing's searchParams
    globalFilters, \* the store's filters slice
    lv,           \* UV_ProductListing: mounted or not, effect and fetch due
    lq,           \* UV_ProductListing's product queries: those in flight, those
                  \* cached, and the response the store's products slice holds
    db,           \* every table by its key and foreign-key columns
    sess,         \* the session: the initialize_app calls running, what the store
                  \* holds of categories and attributes, the clock, the route
    review_votes, \* the server's helpful votes: each review's count, and who voted
    pd,           \* UV_ProductDetail: the cached product details, the vote states,
                  \* the vote requests in flight
    sr,           \* UV_SearchResults: its local state, the location it renders,
                  \* the navigation not yet rendered, the effects due
    rv            \* UV_ReviewSubmission on the page: its product info query, its
                  \* photo uploads in flight, the photos it holds

reviewVars == <<reviews, rs, reviewNet, edits>>
authVars == <<users, auth, notifications, appInit, loginNet, regErrors, regNet>>
bookmarkVars == <<products, user_bookmarks, bmPosted, bv, bmNet>>

listingVars == <<url, globalFilters, lv>>

\* The variables of the database and of the later sections.
voteVars == <<review_votes, pd>>
restVars == <<db, sess, voteVars, sr, rv>>

vars == <<reviewVars, authVars, bookmarkVars, answers, listingVars, lq, restVars>>

\* What the actions of one subsystem leave alone.
reviewOthers == <<authVars, bookmarkVars, answers, listingVars, lq, restVars>>
authOthers == <<reviewVars, bookmarkVars, answers, listingVars, lq, restVars>>
bookmarkOthers ==
    <<reviewVars, users, appInit, loginNet, regErrors, regNet, answers, listingVars, lq,
      restVars>>
catalogOthers ==
    <<reviewVars, authVars, user_bookmarks, bmPosted, bv, bmNet, listingVars, lq, restVars>>
listingOthers == <<reviewVars, authVars, bookmarkVars, answers, lq, restVars>>
queryOthers == <<reviewVars, authVars, bookmarkVars, answers, restVars>>
dbOthers ==
    <<reviewVars, authVars, bookmarkVars, answers, listingVars, lq, sess, voteVars, sr, rv>>
sessionOthers ==
    <<reviewVars, bookmarkVars, answers, listingVars, lq, db, voteVars, sr, rv>>
voteOthers == <<reviewVars, bookmarkVars, answers, listingVars, lq, db, sess, sr, rv>>
searchOthers ==
    <<reviewVars, authVars, bookmarkVars, answers, listingVars, lq, db, sess, voteVars, rv>>
photoOthers ==
    <<reviews, reviewNet, edits, users, appInit, loginNet, regErrors, regNet, bookmarkVars,
      answers, listingVars, lq, db, voteVars, sr>>

\* ------------------------------------------------ schema: table reviews
\* The ids of the reviews inserted after the seed's ten.
ReviewIds == {"rev_011", "rev_012", "rev_013", "rev_014"}
ModerationStatuses == {"pending", "approved", "rejected"}

\* CHECK (x IS NULL OR (x >= 1 AND x <= 5)) on the three optional ratings.
OptionalRatingCheck(x) ==
    IF IsNone(x) THEN TRUE ELSE Val(x) >= 1 /\ Val(x) <= 5

\* CHECK (overall_rating >= 1 AND overall_rating <= 5), NOT NULL.
OverallRatingCheck(x) == x >= 1 /\ x <= 5

\* The column moderation_status without a CHECK constraint.
ModerationStatusUnchecked(x) == TRUE

\* CHECK (moderation_status IN ('pending', 'approved', 'rejected')).
ModerationStatusCheck(x) == x \in {"pending", "approved", "rejected"}

\* Every column constraint of table reviews on one row, and its primary key
\* against the rows already stored.
ReviewRowOk(table, row) ==
    /\ \A i \in 1..Len(table) : table[i].review_id # row.review_id
    /\ OverallRatingCheck(row.overall_rating)
    /\ OptionalRatingCheck(row.sustainability_rating)
    /\ OptionalRatingCheck(row.ethical_rating)
    /\ OptionalRatingCheck(row.durability_rating)
    /\ ModerationStatusCheck(row.moderation_status)

\* moderation_status VARCHAR(20) DEFAULT 'pending', helpful_votes INT DEFAULT 0:
\* the values a row gets when the INSERT names neither column.
DefaultModerationStatus == "pending"
ReviewDefaults ==
    [helpful_votes |-> 0, moderation_status |-> DefaultModerationStatus]

\* ---------------------------------------------------- store: auth, notifications
InitialAuth ==
    [ is_authenticated |-> FALSE, user_id |-> None, username |-> None,
      email |-> None, access_token |-> None, token_expiration |-> None,
      loading |-> TRUE, error |-> None ]

InitialNotifications == [message |-> None, type |-> "info", visible |-> FALSE]

\* set_auth_user: the given fields over the slice, loading false, error null.
set_auth_user(a, user_data) ==
    [ a EXCEPT !.is_authenticated = user_data.is_authenticated,
               !.user_id = user_data.user_id,
               !.username = user_data.username,
               !.access_token = user_data.access_token,
               !.token_expiration = user_data.token_expiration,
               !.loading = FALSE,
               !.error = None ]

set_auth_loading(a, loading) == [a EXCEPT !.loading = loading]

clear_auth_state(a) ==
    [ a EXCEPT !.is_authenticated = FALSE, !.user_id = None, !.username = None,
               !.email = None, !.access_token = None, !.token_expiration = None,
               !.error = None ]

show_notification(message, type) ==
    [message |-> Some(message), type |-> type, visible |-> TRUE]

\* ------------------------------------------- UV_ReviewSubmission: the view
ConfirmationError == "You must confirm you have personally used this product."

\* useState initial values of the form.
InitialReviewState ==
    [ review_title |-> <<>>,
      review_body |-> <<>>,
      overall_rating |-> None,
      sustainability_rating |-> None,
      ethical_rating |-> None,
      durability_rating |-> None,
      confirmation_checkbox |-> FALSE,
      is_submitting |-> FALSE,
      validation_errors |-> {},
      submission_feedback |-> "none" ]

\* String(n) for a rating, and the server's reading of such a field.
Digits == <<"0", "1", "2", "3", "4", "5", "6", "7", "8", "9">>
String(n) == Digits[n + 1]
ParseRating(str) ==
    IF \E n \in 0..9 : Digits[n + 1] = str
    THEN Some(CHOOSE n \in 0..9 : Digits[n + 1] = str)
    ELSE None

\* The FormData submitNewReview builds: the optional ratings are appended
\* only when not null, and confirmation_checkbox is not appended at all.
ReviewFormData(reviewData) ==
    [ title |-> reviewData.title,
      body |-> reviewData.body,
      overall_rating |-> String(reviewData.overall_rating),
      sustainability_rating |->
          IF reviewData.sustainability_rating # None
          THEN Some(String(Val(reviewData.sustainability_rating))) ELSE None,
      ethical_rating |->
          IF reviewData.ethical_rating # None
          THEN Some(String(Val(reviewData.ethical_rating))) ELSE None,
      durability_rating |->
          IF reviewData.durability_rating # None
          THEN Some(String(Val(reviewData.durability_rating))) ELSE None ]

\* submitNewReview: a rejected promise without any POST when the confirmation
\* is missing, otherwise the POST.  The result is the set of messages put in
\* flight: a request to the server, or the local rejection as a response.
submitNewReview(reviewData) ==
    IF ~reviewData.confirmation_checkbox
    THEN [ kind |-> "response", origin |-> "mutation", status |-> 0,
           error |-> ConfirmationError, posted |-> FALSE ]
    ELSE [ kind |-> "request", origin |-> "mutation",
           formData |-> ReviewFormData(reviewData),
           reviewData |-> reviewData ]

\* A validation that compares the raw field values, without trim.
ValidationErrorsUntrimmed(st) ==
    (IF st.review_title = <<>> THEN {"title"} ELSE {})
    \cup (IF st.review_body = <<>> THEN {"body"} ELSE {})
    \cup (IF st.overall_rating = None THEN {"overall_rating"} ELSE {})
    \cup (IF ~st.confirmation_checkbox THEN {"confirmation_checkbox"} ELSE {})

\* handleSubmit's client-side validation: the fields in error.
ValidationErrorsOf(st) ==
    (IF trim(st.review_title) = <<>> THEN {"title"} ELSE {})
    \cup (IF trim(st.review_body) = <<>> THEN {"body"} ELSE {})
    \cup (IF st.overall_rating = None
              \/ Val(st.overall_rating) < 1 \/ Val(st.overall_rating) > 5
          THEN {"overall_rating"} ELSE {})
    \cup (IF ~st.confirmation_checkbox THEN {"confirmation_checkbox"} ELSE {})

\* The reviewData object handleSubmit passes to the mutation.
ReviewDataOf(st) ==
    [ title |-> trim(st.review_title),
      body |-> trim(st.review_body),
      overall_rating |-> Val(st.overall_rating),
      sustainability_rating |-> st.sustainability_rating,
      ethical_rating |-> st.ethical_rating,
      durability_rating |-> st.durability_rating,
      confirmation_checkbox |-> st.confirmation_checkbox ]

\* The form's handlers.  There is no form once the view has left for /login.
handleTitleChange(v) ==
    /\ rv.status # "left"
    /\ edits < MaxEdits
    /\ edits' = edits + 1
    /\ rs' = [rs EXCEPT !.review_title = v,
                        !.validation_errors = @ \ {"title"}]
    /\ UNCHANGED <<reviews, reviewNet, reviewOthers>>

handleBodyChange(v) ==
    /\ rv.status # "left"
    /\ edits < MaxEdits
    /\ edits' = edits + 1
    /\ rs' = [rs EXCEPT !.review_body = v,
                        !.validation_errors = @ \ {"body"}]
    /\ UNCHANGED <<reviews, reviewNet, reviewOthers>>

handleOverallRatingChange(ratingValue) ==
    /\ rv.status # "left"
    /\ edits < MaxEdits
    /\ edits' = edits + 1
    /\ rs' = [rs EXCEPT !.overall_rating = Some(ratingValue),
                        !.validation_errors = @ \ {"overall_rating"}]
    /\ UNCHANGED <<reviews, reviewNet, reviewOthers>>

handleAnyRatingChange(field, ratingValue) ==
    /\ rv.status # "left"
    /\ edits < MaxEdits
    /\ edits' = edits + 1
    /\ rs' = [rs EXCEPT ![field] = Some(ratingValue)]
    /\ UNCHANGED <<reviews, reviewNet, reviewOthers>>

toggleConfirmation ==
    /\ rv.status # "left"
    /\ edits < MaxEdits
    /\ edits' = edits + 1
    /\ rs' = [rs EXCEPT !.confirmation_checkbox = ~@,
                        !.validation_errors = @ \ {"confirmation_checkbox"}]
    /\ UNCHANGED <<reviews, reviewNet, reviewOthers>>

\* handleSubmit on a form whose submit button is never disabled.
handleSubmitButtonEnabled ==
    /\ rv.status # "left"
    /\ Len(reviewNet) < MaxInFlight
    /\ LET errors == ValidationErrorsOf(rs) IN
       IF errors # {}
       THEN /\ rs' = [rs EXCEPT !.validation_errors = errors]
            /\ UNCHANGED <<reviews, reviewNet, edits, reviewOthers>>
       ELSE /\ rs' = [rs EXCEPT !.is_submitting = TRUE,
                                !.validation_errors = {},
                                !.submission_feedback = "none"]
            /\ reviewNet' = Append(reviewNet, submitNewReview(ReviewDataOf(rs)))
            /\ UNCHANGED <<reviews, edits, reviewOthers>>

\* handleSubmit, with reviewSubmissionMutation.mutate and its onMutate when
\* the validation passes.  The submit button is disabled while is_submitting.
handleSubmit ==
    /\ rv.status # "left"
    /\ ~rs.is_submitting
    /\ Len(reviewNet) < MaxInFlight
    /\ LET errors == ValidationErrorsOf(rs) IN
       IF errors # {}
       THEN /\ rs' = [rs EXCEPT !.validation_errors = errors]
            /\ UNCHANGED <<reviews, reviewNet, edits, reviewOthers>>
       ELSE /\ rs' = [rs EXCEPT !.is_submitting = TRUE,
                                !.validation_errors = {},
                                !.submission_feedback = "none"]
            /\ reviewNet' = Append(reviewNet, submitNewReview(ReviewDataOf(rs)))
            /\ UNCHANGED <<reviews, edits, reviewOthers>>

\* The multipart body of a request made outside handleSubmit and
\* submitNewReview from the same form: the fields of the schema only.
BypassFormData(st) ==
    [ title |-> trim(st.review_title),
      body |-> trim(st.review_body),
      overall_rating |->
          IF st.overall_rating = None THEN "null"
          ELSE String(Val(st.overall_rating)),
      sustainability_rating |->
          IF st.sustainability_rating # None
          THEN Some(String(Val(st.sustainability_rating))) ELSE None,
      ethical_rating |->
          IF st.ethical_rating # None
          THEN Some(String(Val(st.ethical_rating))) ELSE None,
      durability_rating |->
          IF st.durability_rating # None
          THEN Some(String(Val(st.durability_rating))) ELSE None ]

\* ---------------------------- server: POST /products/{product_id}/reviews
\* The request validation of the endpoint: title and body present and not
\* empty, overall_rating an integer 1..5, each optional rating absent or an
\* integer 1..5.  It reads the multipart fields only.
ReviewRequestValid(formData) ==
    /\ formData.title # <<>>
    /\ formData.body # <<>>
    /\ ParseRating(formData.overall_rating) # None
    /\ Val(ParseRating(formData.overall_rating)) \in 1..5
    /\ \A f \in {"sustainability_rating", "ethical_rating", "durability_rating"} :
          formData[f] # None =>
              /\ ParseRating(Val(formData[f])) # None
              /\ Val(ParseRating(Val(formData[f]))) \in 1..5

OptRating(field) == IF field = None THEN None ELSE ParseRating(Val(field))

FreshReviewId(table) ==
    CHOOSE id \in ReviewIds : \A i \in 1..Len(table) : table[i].review_id # id

\* The row the endpoint inserts.  moderation_status and helpful_votes are
\* left to the column defaults.  ghost_confirmed is no column: it records the
\* sender's checkbox for the properties, and nothing reads it.
ReviewRowOf(table, req) ==
    [ review_id |-> FreshReviewId(table),
      product_id |-> "prod_001",
      user_id |-> "user_abc",
      title |-> req.formData.title,
      body |-> req.formData.body,
      overall_rating |-> Val(ParseRating(req.formData.overall_rating)),
      sustainability_rating |-> OptRating(req.formData.sustainability_rating),
      ethical_rating |-> OptRating(req.formData.ethical_rating),
      durability_rating |-> OptRating(req.formData.durability_rating),
      helpful_votes |-> ReviewDefaults.helpful_votes,
      moderation_status |-> ReviewDefaults.moderation_status,
      ghost_confirmed |-> req.reviewData.confirmation_checkbox ]

ReviewResponse(req, status, error) ==
    [ kind |-> "response", origin |-> req.origin, status |-> status,
      error |-> error, posted |-> TRUE ]

\* The statuses the endpoint answers whatever the body holds: the bearer
\* token is no longer accepted or its user is refused, or the product is
\* gone; and the request that
\* gets no answer at all, which axios rejects without a response.
ReviewFaults == {"none", "401", "403", "404", "network"}

\* The endpoint on one request against the table: the status and error it
\* answers and the table it leaves.
ReviewResult(table, req, fault) ==
    IF fault = "401"
    THEN [status |-> 401, error |-> "Unauthorized", table |-> table]
    ELSE IF fault = "403"
    THEN [status |-> 403, error |-> "Forbidden", table |-> table]
    ELSE IF fault = "404"
    THEN [status |-> 404, error |-> "Product not found", table |-> table]
    ELSE IF fault = "network"
    THEN [status |-> 0, error |-> "Network Error", table |-> table]
    ELSE IF ~ReviewRequestValid(req.formData)
    THEN [status |-> 400, error |-> "Invalid input", table |-> table]
    ELSE [status |-> 201, error |-> "none",
          table |-> Append(table, ReviewRowOf(table, req))]

\* The endpoint serving the view's request in flight.
submit_review_for_product(i, fault) ==
    /\ i \in 1..Len(reviewNet)
    /\ reviewNet[i].kind = "request"
    /\ LET req == reviewNet[i]
           res == ReviewResult(reviews, req, fault)
       IN
       /\ res.status = 201 =>
              /\ Len(reviews) < MaxReviews
              /\ ReviewRowOk(reviews, ReviewRowOf(reviews, req))
       /\ reviews' = res.table
       /\ reviewNet' = Append(RemoveAt(reviewNet, i),
                              ReviewResponse(req, res.status, res.error))
    /\ UNCHANGED <<rs, edits, reviewOthers>>

\* The endpoint serving a request made outside the view: the sender holds the
\* same form but skips handleSubmit and submitNewReview, and no callback of
\* the view sees the answer.
DirectPost(fault) ==
    LET req == [ kind |-> "request", origin |-> "direct",
                 formData |-> BypassFormData(rs),
                 reviewData |-> [confirmation_checkbox |-> rs.confirmation_checkbox] ]
        res == ReviewResult(reviews, req, fault)
    IN
    /\ res.status = 201 =>
           /\ Len(reviews) < MaxReviews
           /\ ReviewRowOk(reviews, ReviewRowOf(reviews, req))
    /\ reviews' = res.table
    /\ UNCHANGED <<rs, reviewNet, edits, reviewOthers>>

\* A moderation decision on a stored review: UPDATE reviews SET
\* moderation_status, which the column's CHECK constraint guards.
ModerationInputs == {"pending", "approved", "rejected", "flagged"}

ModerateReview(i, status) ==
    /\ i \in 1..Len(reviews)
    /\ ModerationStatusCheck(status)
    /\ reviews[i].moderation_status # status
    /\ reviews' = [reviews EXCEPT ![i].moderation_status = status]
    /\ UNCHANGED <<rs, reviewNet, edits, reviewOthers>>

\* ------------------------------- reviewSubmissionMutation's callbacks
\* A check of the status for 401 only.
IsSessionExpired(status) == status = 401

\* err.response?.status === 401 || err.response?.status === 403
IsAuthFailure(status) == status = 401 \/ status = 403

\* navigate('/login') from the view: the route changes and the view, when it
\* is on the page, is unmounted.
LeaveReviewView(v) == [v EXCEPT !.status = IF @ = "mounted" THEN "left" ELSE @]

reviewSubmissionOnSuccess(i) ==
    /\ i \in 1..Len(reviewNet)
    /\ reviewNet[i].kind = "response"
    /\ reviewNet[i].origin = "mutation"
    /\ reviewNet[i].status = 201
    /\ rs' = [ InitialReviewState EXCEPT
                 !.validation_errors = rs.validation_errors,
                 !.submission_feedback = "success" ]
    /\ reviewNet' = RemoveAt(reviewNet, i)
    /\ UNCHANGED <<reviews, edits, reviewOthers>>

reviewSubmissionOnError(i) ==
    /\ i \in 1..Len(reviewNet)
    /\ reviewNet[i].kind = "response"
    /\ reviewNet[i].origin = "mutation"
    /\ reviewNet[i].status # 201
    /\ rs' = IF reviewNet[i].error = ConfirmationError
             THEN [rs EXCEPT !.is_submitting = FALSE,
                             !.validation_errors = {"confirmation_checkbox"}]
             ELSE [rs EXCEPT !.is_submitting = FALSE,
                             !.submission_feedback = "error"]
    /\ auth' = IF IsAuthFailure(reviewNet[i].status) THEN clear_auth_state(auth) ELSE auth
    /\ sess' = IF IsAuthFailure(reviewNet[i].status) THEN [sess EXCEPT !.route = "/login"]
               ELSE sess
    /\ rv' = IF IsAuthFailure(reviewNet[i].status) THEN LeaveReviewView(rv) ELSE rv
    /\ reviewNet' = RemoveAt(reviewNet, i)
    /\ UNCHANGED <<reviews, edits, users, notifications, appInit, loginNet, regErrors,
                   regNet, bookmarkVars, answers, listingVars, lq, db, voteVars, sr>>

InitReview ==
    /\ reviews = <<>>
    /\ rs = InitialReviewState
    /\ reviewNet = <<>>
    /\ edits = 0

NextReview ==
    \/ \E v \in TextInputs : handleTitleChange(v)
    \/ \E v \in TextInputs : handleBodyChange(v)
    \/ \E n \in StarInputs : handleOverallRatingChange(n)
    \/ \E f \in {"sustainability_rating", "ethical_rating", "durability_rating"},
          n \in StarInputs : handleAnyRatingChange(f, n)
    \/ toggleConfirmation
    \/ handleSubmit
    \/ \E fault \in ReviewFaults : DirectPost(fault)
    \/ \E i \in 1..MaxInFlight, fault \in ReviewFaults :
          submit_review_for_product(i, fault)
    \/ \E i \in 1..MaxReviews, st \in ModerationInputs : ModerateReview(i, st)
    \/ \E i \in 1..MaxInFlight : reviewSubmissionOnSuccess(i)
    \/ \E i \in 1..MaxInFlight : reviewSubmissionOnError(i)

\* ====================================================== registration and login
\* ------------------------------------------------------ schema: table users
\* Seed rows of table users.  password_hash holds Hash of the password.
Hash(password) == <<"hashed_">> \o password

ecowoman_emily == <<"e","c","o","w","o","m","a","n","_","e","m","i","l","y">>
emily_email ==
    <<"e","m","i","l","y","@","s","u","s","t","a","i","n","a","r","e","v","i","e","w",".","c","o","m">>
password_emily == <<"p","a","s","s","w","o","r","d","_","e","m","i","l","y">>
practical_paul == <<"p","r","a","c","t","i","c","a","l","_","p","a","u","l">>
paul_email ==
    <<"p","a","u","l","@","s","u","s","t","a","i","n","a","r","e","v","i","e","w",".","c","o","m">>
password_paul == <<"p","a","s","s","w","o","r","d","_","p","a","u","l">>

ethical_alex == <<"e","t","h","i","c","a","l","_","a","l","e","x">>
alex_email ==
    <<"a","l","e","x","@","s","u","s","t","a","i","n","a","r","e","v","i","e","w",".","c","o","m">>
password_alex == <<"p","a","s","s","w","o","r","d","_","a","l","e","x">>
review_guru == <<"r","e","v","i","e","w","_","g","u","r","u">>
guru_email ==
    <<"g","u","r","u","@","s","u","s","t","a","i","n","a","r","e","v","i","e","w",".","c","o","m">>
password_guru == <<"p","a","s","s","w","o","r","d","_","g","u","r","u">>

SeedUsers ==
    << [ user_id |-> "user_abc", username |-> ecowoman_emily,
         email |-> emily_email, password_hash |-> Hash(password_emily) ],
       [ user_id |-> "user_def", username |-> practical_paul,
         email |-> paul_email, password_hash |-> Hash(password_paul) ],
       [ user_id |-> "user_ghi", username |-> ethical_alex,
         email |-> alex_email, password_hash |-> Hash(password_alex) ],
       [ user_id |-> "user_jkl", username |-> review_guru,
         email |-> guru_email, password_hash |-> Hash(password_guru) ] >>

\* Table users with no UNIQUE constraint: the primary key only.
UsersRowOkKeyOnly(table, row) ==
    \A i \in 1..Len(table) : table[i].user_id # row.user_id

\* user_id PRIMARY KEY, username UNIQUE, email UNIQUE: whether the table
\* takes the row.
UsersRowOk(table, row) ==
    \A i \in 1..Len(table) :
          /\ table[i].user_id # row.user_id
          /\ table[i].username # row.username
          /\ table[i].email # row.email

\* initialize_app up to its first await: set_auth_loading(true), then, with no
\* stored token that is still valid, clear_auth_state.  localStorage is empty
\* when the application is first opened, so this is the branch taken.
initialize_app_begin ==
    /\ appInit = "mounting"
    /\ ~(auth.access_token # None /\ auth.token_expiration # None)
    /\ auth' = clear_auth_state(set_auth_loading(auth, TRUE))
    /\ appInit' = "running"
    /\ UNCHANGED <<users, notifications, loginNet, regErrors, regNet, authOthers>>

\* initialize_app from the categories and attributes requests to its finally
\* block.  A failed request shows its notification; the later one stays.
initialize_app_end(categoriesOk, attributesOk) ==
    /\ appInit = "running"
    /\ notifications' =
          IF ~attributesOk THEN show_notification("Failed to load attributes.", "error")
          ELSE IF ~categoriesOk THEN show_notification("Failed to load categories.", "error")
          ELSE notifications
    /\ auth' = set_auth_loading(auth, FALSE)
    /\ appInit' = "done"
    /\ UNCHANGED <<users, loginNet, regErrors, regNet, authOthers>>

\* ------------------------------------------------- server: POST /auth/login
\* The token issued to a user, and its validity in seconds.
TokenFor(user_id) == <<"token", user_id>>
expires_in == 3600

\* login_user: 400 without email or password, 200 with a token when the
\* email belongs to a user whose password_hash is the hash of the password,
\* 401 otherwise.
LoginResult(table, body) ==
    IF body.email = <<>> \/ body.password = <<>>
    THEN [status |-> 400, error |-> Some("Missing email or password"), data |-> None]
    ELSE IF \E i \in 1..Len(table) :
               /\ table[i].email = body.email
               /\ table[i].password_hash = Hash(body.password)
    THEN LET u == table[CHOOSE i \in 1..Len(table) : table[i].email = body.email] IN
         [ status |-> 200, error |-> None,
           data |-> Some([ user_id |-> u.user_id, username |-> u.username,
                           access_token |-> TokenFor(u.user_id),
                           token_type |-> "Bearer", expires_in |-> expires_in ]) ]
    ELSE [status |-> 401, error |-> Some("Invalid credentials"), data |-> None]

login_user ==
    /\ loginNet # <<>>
    /\ loginNet[1].kind = "request"
    /\ LET res == LoginResult(users, loginNet[1].body) IN
       loginNet' = << [ kind |-> "response", status |-> res.status,
                        error |-> res.error, data |-> res.data,
                        body |-> loginNet[1].body ] >>
    /\ UNCHANGED <<users, auth, notifications, appInit, regErrors, regNet, authOthers>>

\* --------------------------------------------------------------- UV_Login
\* Date.now() when a login succeeds.
DateNow == 0

\* The email addresses and passwords typed into the login form.
LoginEmails == {<<>>, emily_email, paul_email}
LoginPasswords == {<<>>, password_emily, password_paul}

\* loginMutation.onError with the session of the answering user installed, as
\* onSuccess would.
loginOnErrorInstalling ==
    /\ loginNet # <<>>
    /\ loginNet[1].kind = "response"
    /\ loginNet[1].status # 200
    /\ auth' = set_auth_user(auth,
          [ is_authenticated |-> TRUE, user_id |-> Some("user_abc"),
            username |-> Some(ecowoman_emily),
            access_token |-> Some(TokenFor("user_abc")),
            token_expiration |-> Some(DateNow + expires_in * 1000) ])
    /\ notifications' = show_notification("Login failed. Please check your credentials.", "error")
    /\ loginNet' = <<>>
    /\ UNCHANGED <<users, appInit, regErrors, regNet, authOthers>>

\* handleSubmit of the login form.  The form is rendered once auth.loading is
\* false, the view leaves for /products when is_authenticated, and the inputs
\* and the button are disabled while loginMutation.isPending.
loginHandleSubmit(email, password) ==
    /\ ~auth.loading
    /\ ~auth.is_authenticated
    /\ loginNet = <<>>
    /\ IF email = <<>> \/ password = <<>>
       THEN /\ notifications' =
                  show_notification("Please enter both email and password.", "warning")
            /\ UNCHANGED loginNet
       ELSE /\ loginNet' = << [ kind |-> "request",
                                body |-> [email |-> email, password |-> password] ] >>
            /\ UNCHANGED notifications
    /\ UNCHANGED <<users, auth, appInit, regErrors, regNet, authOthers>>

\* loginMutation.onSuccess: set_auth_user, the success notification, and the
\* navigation to /products.
loginOnSuccess ==
    /\ loginNet # <<>>
    /\ loginNet[1].kind = "response"
    /\ loginNet[1].status = 200
    /\ LET data == Val(loginNet[1].data) IN
       auth' = set_auth_user(auth,
          [ is_authenticated |-> TRUE, user_id |-> Some(data.user_id),
            username |-> Some(data.username),
            access_token |-> Some(data.access_token),
            token_expiration |-> Some(DateNow + data.expires_in * 1000) ])
    /\ notifications' = show_notification("Login successful! Redirecting you now.", "success")
    /\ loginNet' = <<>>
    /\ UNCHANGED <<users, appInit, regErrors, regNet, authOthers>>

\* loginMutation.onError: the error object is the AxiosError, which has no
\* field error, so the notification is the fixed message.
loginOnError ==
    /\ loginNet # <<>>
    /\ loginNet[1].kind = "response"
    /\ loginNet[1].status # 200
    /\ notifications' = show_notification("Login failed. Please check your credentials.", "error")
    /\ loginNet' = <<>>
    /\ UNCHANGED <<users, auth, appInit, regErrors, regNet, authOthers>>

\* ------------------------------------------------------ server: POST /users
UserIds == {"user_abc", "user_def", "user_ghi", "user_jkl", "user_mno", "user_pqr"}

UserRowOf(table, body) ==
    [ user_id |-> CHOOSE id \in UserIds :
                      \A i \in 1..Len(table) : table[i].user_id # id,
      username |-> body.username,
      email |-> body.email,
      password_hash |-> Hash(body.password) ]

\* register_user: 400 when a required field is missing, 409 when the table
\* refuses the row for its username or email, 201 with the row inserted.
RegisterResult(table, body) ==
    IF body.username = <<>> \/ body.email = <<>> \/ body.password = <<>>
    THEN [status |-> 400, error |-> "Invalid input", table |-> table]
    ELSE IF ~UsersRowOk(table, UserRowOf(table, body))
    THEN [status |-> 409, error |-> "Username or email already exists", table |-> table]
    ELSE [status |-> 201, error |-> "none",
          table |-> Append(table, UserRowOf(table, body))]

HasFreeUserId(table) ==
    \E id \in UserIds : \A i \in 1..Len(table) : table[i].user_id # id

\* The endpoint serving the view's registration in flight.
register_user ==
    /\ regNet # <<>>
    /\ regNet[1].kind = "request"
    /\ HasFreeUserId(users)
    /\ LET res == RegisterResult(users, regNet[1].body) IN
       /\ users' = res.table
       /\ regNet' = << [ kind |-> "response", status |-> res.status,
                         error |-> res.error, body |-> regNet[1].body,
                         taken |-> \E i \in 1..Len(users) :
                                      users[i].username = regNet[1].body.username
                                      \/ users[i].email = regNet[1].body.email ] >>
    /\ UNCHANGED <<auth, notifications, appInit, loginNet, regErrors, authOthers>>

\* -------------------------------------------------------- UV_Registration
\* emailRegex, /^[^\\s@]+@[^\\s@]+\\.[^\\s@]+$/ as written in the view: the
\* class [^\\s@] is every character but the backslash, the letter s and the
\* at sign, and \\. is a backslash followed by any character.
EmailClass(c) == c \notin {"\\", "s", "@"}

emailRegexTest(e) ==
    \E a \in 1..Len(e), b \in 1..Len(e) :
        /\ a >= 2
        /\ e[a] = "@"
        /\ \A k \in 1..(a - 1) : EmailClass(e[k])
        /\ b >= a + 2
        /\ e[b] = "\\"
        /\ \A k \in (a + 1)..(b - 1) : EmailClass(e[k])
        /\ b + 2 <= Len(e)
        /\ \A k \in (b + 2)..Len(e) : EmailClass(e[k])

\* What is typed into the registration form.
nova == <<"n","o","v","a">>
nova_email == <<"n","@","m","\\",".","o">>
password_nova == <<"p","a","s","s","w","o","r","d","_","n","o","v","a">>

RegUsernames == {<<>>, ecowoman_emily, nova, <<" ">> \o nova}
RegEmails == {emily_email, nova_email, nova_email \o <<" ">>}
RegPasswords == {<<"p","w">>, password_nova}
RegConfirmations == {<<>>, <<"p","w">>, password_nova}

RegForms ==
    [ username : RegUsernames, email : RegEmails, password : RegPasswords,
      confirm_password : RegConfirmations, terms_accepted : BOOLEAN ]

\* handleSubmit's validation: the fields in error.
RegValidationErrors(form) ==
    (IF trim(form.username) = <<>> THEN {"username"} ELSE {})
    \cup (IF form.email = <<>> THEN {"email"}
          ELSE IF ~emailRegexTest(form.email) THEN {"email"} ELSE {})
    \cup (IF Len(form.password) < 8 THEN {"password"} ELSE {})
    \cup (IF form.confirm_password = <<>> THEN {"confirm_password"}
          ELSE IF form.password # form.confirm_password THEN {"confirm_password"}
          ELSE {})
    \cup (IF ~form.terms_accepted THEN {"terms_accepted"} ELSE {})

\* handleSubmit of the registration form, with registrationMutation.mutate
\* and its onMutate.  The button is disabled while the mutation is pending
\* and while the password is shorter than 8 characters.
regHandleSubmit(form) ==
    /\ regNet = <<>>
    /\ Len(form.password) >= 8
    /\ LET errors == RegValidationErrors(form) IN
       IF errors # {}
       THEN /\ regErrors' = errors
            /\ UNCHANGED regNet
       ELSE /\ regErrors' = {}
            /\ regNet' = << [ kind |-> "request",
                              body |-> [ username |-> trim(form.username),
                                         email |-> trim(form.email),
                                         password |-> form.password ] ] >>
    /\ UNCHANGED <<users, auth, notifications, appInit, loginNet, authOthers>>

\* registrationMutation.onSuccess: the notification, then navigate('/login').
regOnSuccess ==
    /\ regNet # <<>>
    /\ regNet[1].kind = "response"
    /\ regNet[1].status = 201
    /\ notifications' = show_notification("Registration successful", "success")
    /\ regNet' = <<>>
    /\ UNCHANGED <<users, auth, appInit, loginNet, regErrors, authOthers>>

\* registrationMutation.onError: validation_errors reset; the response has no
\* details, so its error is shown as a notification.
regOnError ==
    /\ regNet # <<>>
    /\ regNet[1].kind = "response"
    /\ regNet[1].status # 201
    /\ regErrors' = {}
    /\ notifications' = show_notification(regNet[1].error, "error")
    /\ regNet' = <<>>
    /\ UNCHANGED <<users, auth, appInit, loginNet, authOthers>>

\* A registration made from another client: the endpoint on a body that no
\* view of this client trimmed or validated.
OtherClientBodies ==
    [ username : {ecowoman_emily, nova, <<" ">> \o nova},
      email : {emily_email, nova_email},
      password : {password_nova} ]

OtherClientRegisters(body) ==
    /\ HasFreeUserId(users)
    /\ users' = RegisterResult(users, body).table
    /\ UNCHANGED <<auth, notifications, appInit, loginNet, regErrors, regNet, authOthers>>

InitAuth ==
    /\ users = SeedUsers
    /\ auth = InitialAuth
    /\ notifications = InitialNotifications
    /\ appInit = "mounting"
    /\ loginNet = <<>>
    /\ regErrors = {}
    /\ regNet = <<>>

NextAuth ==
    \/ initialize_app_begin
    \/ \E categoriesOk \in BOOLEAN, attributesOk \in BOOLEAN :
          initialize_app_end(categoriesOk, attributesOk)
    \/ \E email \in LoginEmails, password \in LoginPasswords :
          loginHandleSubmit(email, password)
    \/ login_user
    \/ loginOnSuccess
    \/ loginOnError
    \/ \E form \in RegForms : regHandleSubmit(form)
    \/ register_user
    \/ regOnSuccess
    \/ regOnError
    \/ \E body \in OtherClientBodies : OtherClientRegisters(body)

\* ================================================================ bookmarks
\* ------------------------------------- schema: tables products, user_bookmarks
\* Scores are DECIMAL(3,2): held in hundredths, 4.7 as 470.  NULL is None.
\* created_at is a timestamp string of one day, '2023-10-26 11:05:00': held as
\* its hour and minute, 1105, which orders as the strings do.
SeedProducts ==
    << [ product_id |-> "prod_001", name |-> "EcoPure Water Bottle",
         created_at |-> 1100,
         brand_name |-> "AquaLife", category_id |-> "cat_003",
         overall_score |-> Some(470), sustainability_score |-> Some(490),
         ethical_score |-> Some(450), durability_score |-> Some(480) ],
       [ product_id |-> "prod_002", name |-> "TrailBlazer Hiking Boots",
         created_at |-> 1105,
         brand_name |-> "SummitChaser", category_id |-> "cat_006",
         overall_score |-> Some(450), sustainability_score |-> Some(400),
         ethical_score |-> Some(420), durability_score |-> Some(490) ],
       [ product_id |-> "prod_003", name |-> "Conscious Cotton T-Shirt",
         created_at |-> 1110,
         brand_name |-> "EverGreen Apparel", category_id |-> "cat_002",
         overall_score |-> Some(460), sustainability_score |-> Some(480),
         ethical_score |-> Some(470), durability_score |-> Some(430) ],
       [ product_id |-> "prod_004", name |-> "SolarCharge Power Bank",
         created_at |-> 1115,
         brand_name |-> "Sunergy", category_id |-> "cat_001",
         overall_score |-> Some(430), sustainability_score |-> Some(460),
         ethical_score |-> Some(400), durability_score |-> Some(410) ],
       [ product_id |-> "prod_005", name |-> "Artisan Coffee Beans",
         created_at |-> 1120,
         brand_name |-> "BeanCraft", category_id |-> "cat_005",
         overall_score |-> Some(480), sustainability_score |-> Some(470),
         ethical_score |-> Some(490), durability_score |-> None ],
       [ product_id |-> "prod_006", name |-> "DuraBlend Kitchen Blender",
         created_at |-> 1125,
         brand_name |-> "KitchenPro", category_id |-> "cat_003",
         overall_score |-> Some(460), sustainability_score |-> Some(420),
         ethical_score |-> Some(440), durability_score |-> Some(470) ],
       [ product_id |-> "prod_007", name |-> "Naturals Skincare Set",
         created_at |-> 1130,
         brand_name |-> "PureSkin Co.", category_id |-> "cat_004",
         overall_score |-> Some(440), sustainability_score |-> Some(450),
         ethical_score |-> Some(460), durability_score |-> Some(400) ],
       [ product_id |-> "prod_008", name |-> "Zenith Laptop",
         created_at |-> 1135,
         brand_name |-> "TechNova", category_id |-> "cat_001",
         overall_score |-> Some(470), sustainability_score |-> Some(480),
         ethical_score |-> Some(450), durability_score |-> Some(460) ],
       [ product_id |-> "prod_009", name |-> "EverWarm Winter Jacket",
         created_at |-> 1140,
         brand_name |-> "ArcticGear", category_id |-> "cat_002",
         overall_score |-> Some(450), sustainability_score |-> Some(470),
         ethical_score |-> Some(430), durability_score |-> Some(470) ],
       [ product_id |-> "prod_010", name |-> "Adventure Backpack",
         created_at |-> 1145,
         brand_name |-> "Explorer Pack", category_id |-> "cat_006",
         overall_score |-> Some(460), sustainability_score |-> Some(430),
         ethical_score |-> Some(450), durability_score |-> Some(480) ] >>

SeedBookmarks ==
    << [user_id |-> "user_abc", product_id |-> "prod_001"],
       [user_id |-> "user_abc", product_id |-> "prod_008"],
       [user_id |-> "user_def", product_id |-> "prod_002"],
       [user_id |-> "user_def", product_id |-> "prod_006"],
       [user_id |-> "user_ghi", product_id |-> "prod_003"],
       [user_id |-> "user_ghi", product_id |-> "prod_007"] >>

\* Table user_bookmarks with no primary key.
UserBookmarksRowOkNoKey(table, row) == TRUE

\* PRIMARY KEY (user_id, product_id): whether the table takes the row.
UserBookmarksRowOk(table, row) ==
    \A i \in 1..Len(table) :
        ~(table[i].user_id = row.user_id /\ table[i].product_id = row.product_id)

ProductExists(table, product_id) ==
    \E i \in 1..Len(table) : table[i].product_id = product_id

\* ------------------------- server: /products/{product_id}/bookmark, bookmarks
\* The user a bearer token was issued to.
UserOfToken(token) == token[2]

\* bookmark_product: 404 for an unknown product, 409 when the table refuses
\* the row, 201 with the row inserted.
BookmarkResult(table, productTable, user_id, product_id) ==
    LET row == [user_id |-> user_id, product_id |-> product_id] IN
    IF ~ProductExists(productTable, product_id)
    THEN [status |-> 404, error |-> "Product not found", table |-> table]
    ELSE IF ~UserBookmarksRowOk(table, row)
    THEN [status |-> 409, error |-> "Product is already bookmarked", table |-> table]
    ELSE [status |-> 201, error |-> "none", table |-> Append(table, row)]

IsOtherBookmark(row, user_id, product_id) ==
    ~(row.user_id = user_id /\ row.product_id = product_id)

\* unbookmark_product: 404 for an unknown product or a product the user has
\* not bookmarked, 204 with the row deleted.
UnbookmarkResult(table, productTable, user_id, product_id) ==
    IF ~ProductExists(productTable, product_id)
    THEN [status |-> 404, error |-> "Product not found", table |-> table]
    ELSE IF \A i \in 1..Len(table) : IsOtherBookmark(table[i], user_id, product_id)
    THEN [status |-> 404, error |-> "Product not bookmarked", table |-> table]
    ELSE [status |-> 204, error |-> "none",
          table |-> SelectSeq(table, LAMBDA r : IsOtherBookmark(r, user_id, product_id))]

BookmarkCallResult(method, table, productTable, user_id, product_id) ==
    IF method = "POST"
    THEN BookmarkResult(table, productTable, user_id, product_id)
    ELSE UnbookmarkResult(table, productTable, user_id, product_id)

\* bmPosted after a call on the pair was answered with the status.
PostedAfter(posted, status, user_id, product_id) ==
    IF status = 201 THEN posted \cup {<<user_id, product_id>>}
    ELSE IF status = 204 THEN posted \ {<<user_id, product_id>>}
    ELSE posted

\* The endpoints serving the view's POST or DELETE in flight.
bookmark_product(i) ==
    /\ i \in 1..Len(bmNet)
    /\ bmNet[i].kind = "request"
    /\ bmNet[i].method # "GET"
    /\ LET req == bmNet[i]
           user_id == UserOfToken(req.token)
           res == BookmarkCallResult(req.method, user_bookmarks, products,
                                     user_id, req.product_id)
       IN
       /\ user_bookmarks' = res.table
       /\ bmPosted' = PostedAfter(bmPosted, res.status, user_id, req.product_id)
       /\ bmNet' = Append(RemoveAt(bmNet, i),
             [ kind |-> "response", method |-> req.method, status |-> res.status,
               error |-> res.error, product_id |-> req.product_id,
               isCurrentlyBookmarked |-> req.isCurrentlyBookmarked,
               posted_before |-> <<user_id, req.product_id>> \in bmPosted ])
    /\ UNCHANGED <<products, bv, auth, notifications, bookmarkOthers>>

\* get_my_bookmarked_products serving the view's status query in flight: 200
\* with the user's bookmarks, or a failure of the request.
get_my_bookmarked_products(i, ok) ==
    /\ i \in 1..Len(bmNet)
    /\ bmNet[i].kind = "request"
    /\ bmNet[i].method = "GET"
    /\ LET user_id == UserOfToken(bmNet[i].token) IN
       bmNet' = Append(RemoveAt(bmNet, i),
             [ kind |-> "response", method |-> "GET",
               status |-> IF ok THEN 200 ELSE 500,
               product_id |-> bmNet[i].product_id,
               data |-> IF ok
                        THEN { user_bookmarks[k].product_id :
                                 k \in { j \in 1..Len(user_bookmarks) :
                                           user_bookmarks[j].user_id = user_id } }
                        ELSE {} ])
    /\ UNCHANGED <<products, user_bookmarks, bmPosted, bv, auth, notifications,
                   bookmarkOthers>>

\* Another session of the user who is logged in calling an endpoint, on the
\* product the view shows or on a product that does not exist.
OtherSessionProducts == {"viewed", "prod_404"}

OtherSessionCalls(method, target) ==
    /\ auth.is_authenticated
    /\ LET user_id == Val(auth.user_id)
           product_id == IF target = "viewed" THEN bv.product_id ELSE target
           res == BookmarkCallResult(method, user_bookmarks, products,
                                     user_id, product_id)
       IN
       /\ user_bookmarks' = res.table
       /\ bmPosted' = PostedAfter(bmPosted, res.status, user_id, product_id)
    /\ UNCHANGED <<products, bv, bmNet, auth, notifications, bookmarkOthers>>

\* --------------------------------------------- UV_ProductDetail: bookmarks
\* The product the view shows.
ViewedProducts == {"prod_001", "prod_002"}

InitialBookmarkView(product_id) ==
    [product_id |-> product_id, is_bookmarked |-> FALSE, query |-> "idle"]

StatusQueryEnabled == auth.is_authenticated /\ auth.access_token # None

StatusRequest ==
    [ kind |-> "request", method |-> "GET", token |-> Val(auth.access_token),
      product_id |-> bv.product_id ]

MutationPending ==
    \E i \in 1..Len(bmNet) : bmNet[i].method # "GET"

\* The status query's first fetch, once it is enabled.
bookmarkStatusFetch ==
    /\ StatusQueryEnabled
    /\ bv.query = "idle"
    /\ bv' = [bv EXCEPT !.query = "loading"]
    /\ bmNet' = Append(bmNet, StatusRequest)
    /\ UNCHANGED <<products, user_bookmarks, bmPosted, auth, notifications,
                   bookmarkOthers>>

\* fetchBookmarkStatus on the answer: whether the product is among the
\* bookmarks, or false from its catch block when the request failed.
fetchBookmarkStatus(response) ==
    IF response.status = 200 THEN response.product_id \in response.data ELSE FALSE

\* The status query's onSuccess with what fetchBookmarkStatus returned.
bookmarkStatusOnSuccess(i) ==
    /\ i \in 1..Len(bmNet)
    /\ bmNet[i].kind = "response"
    /\ bmNet[i].method = "GET"
    /\ bv' = [bv EXCEPT !.is_bookmarked = fetchBookmarkStatus(bmNet[i]),
                        !.query = "success"]
    /\ bmNet' = RemoveAt(bmNet, i)
    /\ UNCHANGED <<products, user_bookmarks, bmPosted, auth, notifications,
                   bookmarkOthers>>

\* toggleProductBookmark's choice of method.
MethodOf(isCurrentlyBookmarked) == IF isCurrentlyBookmarked THEN "DELETE" ELSE "POST"

\* handleBookmarkClick.  The button is disabled while the status query loads
\* for the first time and while the mutation is pending.
handleBookmarkClick ==
    /\ bv.query # "loading"
    /\ ~MutationPending
    /\ IF ~auth.is_authenticated
       THEN /\ notifications' =
                  show_notification("Please log in to manage bookmarks.", "warning")
            /\ UNCHANGED bmNet
       ELSE /\ bmNet' = Append(bmNet,
                  [ kind |-> "request", method |-> MethodOf(bv.is_bookmarked),
                    token |-> Val(auth.access_token),
                    product_id |-> bv.product_id,
                    isCurrentlyBookmarked |-> bv.is_bookmarked ])
            /\ UNCHANGED notifications
    /\ UNCHANGED <<products, user_bookmarks, bmPosted, bv, auth, bookmarkOthers>>

IsStatusMessage(m) == m.method = "GET"

\* bookmarkMutation.onSuccess: the flag flipped, the notification, and the
\* status query invalidated: its fetch in flight is dropped and a new one sent.
bookmarkOnSuccess(i) ==
    /\ i \in 1..Len(bmNet)
    /\ bmNet[i].kind = "response"
    /\ bmNet[i].method # "GET"
    /\ bmNet[i].status \in {201, 204}
    /\ bv' = [bv EXCEPT !.is_bookmarked = ~bmNet[i].isCurrentlyBookmarked]
    /\ notifications' =
          show_notification(
              IF ~bmNet[i].isCurrentlyBookmarked
              THEN "Product added to bookmarks." ELSE "Product removed from bookmarks.",
              "success")
    /\ bmNet' = Append(SelectSeq(RemoveAt(bmNet, i), LAMBDA m : ~IsStatusMessage(m)),
                       StatusRequest)
    /\ UNCHANGED <<products, user_bookmarks, bmPosted, auth, bookmarkOthers>>

\* bookmarkMutation.onError.
bookmarkOnError(i) ==
    /\ i \in 1..Len(bmNet)
    /\ bmNet[i].kind = "response"
    /\ bmNet[i].method # "GET"
    /\ bmNet[i].status \notin {201, 204}
    /\ notifications' = show_notification("Failed to update bookmark", "error")
    /\ bmNet' = RemoveAt(bmNet, i)
    /\ UNCHANGED <<products, user_bookmarks, bmPosted, bv, auth, bookmarkOthers>>

\* The calls in flight at once: the mutation and the status query.
BookmarkCalls == 1..2

InitBookmark ==
    /\ products = SeedProducts
    /\ user_bookmarks = SeedBookmarks
    /\ bmPosted = { <<SeedBookmarks[i].user_id, SeedBookmarks[i].product_id>> :
                      i \in 1..Len(SeedBookmarks) }
    /\ bv \in { InitialBookmarkView(p) : p \in ViewedProducts }
    /\ bmNet = <<>>

NextBookmark ==
    \/ initialize_app_begin
    \/ \E categoriesOk \in BOOLEAN, attributesOk \in BOOLEAN :
          initialize_app_end(categoriesOk, attributesOk)
    \/ \E email \in LoginEmails, password \in LoginPasswords :
          loginHandleSubmit(email, password)
    \/ login_user
    \/ loginOnSuccess
    \/ loginOnError
    \/ bookmarkStatusFetch
    \/ \E i \in BookmarkCalls, ok \in BOOLEAN : get_my_bookmarked_products(i, ok)
    \/ \E i \in BookmarkCalls : bookmarkStatusOnSuccess(i)
    \/ handleBookmarkClick
    \/ \E i \in BookmarkCalls : bookmark_product(i)
    \/ \E i \in BookmarkCalls : bookmarkOnSuccess(i)
    \/ \E i \in BookmarkCalls : bookmarkOnError(i)
    \/ \E method \in {"POST", "DELETE"}, target \in OtherSessionProducts :
          OtherSessionCalls(method, target)

\* ========================================================== product queries
Min(a, b) == IF a < b THEN a ELSE b
Max(a, b) == IF a > b THEN a ELSE b

\* Number.prototype.toString.  Integers are held as such; scores are held in
\* hundredths, and 450 prints as 4.5, 400 as 4, 475 as 4.75.
RECURSIVE IntToString(_)
IntToString(n) ==
    IF n < 10 THEN <<Digits[n + 1]>>
    ELSE IntToString(n \div 10) \o <<Digits[(n % 10) + 1]>>

NumberToString(h) ==
    IF h % 100 = 0 THEN IntToString(h \div 100)
    ELSE IF h % 10 = 0
    THEN IntToString(h \div 100) \o <<".", Digits[((h % 100) \div 10) + 1]>>
    ELSE IntToString(h \div 100)
             \o <<".", Digits[((h % 100) \div 10) + 1], Digits[(h % 10) + 1]>>

\* The server's reading of an integer and of a decimal parameter.
DigitValue(c) == CHOOSE n \in 0..9 : Digits[n + 1] = c

RECURSIVE ParseInt(_)
ParseInt(str) ==
    IF Len(str) = 1 THEN DigitValue(str[1])
    ELSE 10 * ParseInt(SubSeq(str, 1, Len(str) - 1)) + DigitValue(str[Len(str)])

ParseNumber(str) ==
    IF \A i \in 1..Len(str) : str[i] # "."
    THEN 100 * ParseInt(str)
    ELSE LET dot == CHOOSE i \in 1..Len(str) : str[i] = "."
             frac == SubSeq(str, dot + 1, Len(str))
         IN 100 * ParseInt(SubSeq(str, 1, dot - 1))
            + 10 * DigitValue(frac[1])
            + (IF Len(frac) > 1 THEN DigitValue(frac[2]) ELSE 0)

\* A string | null in a condition: null and the empty string are falsy.
Truthy(o) == IF o = None THEN FALSE ELSE Val(o) # ""

NoParams ==
    [ q |-> None, category_id |-> None, brand_name |-> None,
      min_sustainability_score |-> None, min_ethical_score |-> None,
      min_durability_score |-> None, attribute_ids |-> None,
      sort_by |-> None, sort_order |-> None, page |-> None, pageSize |-> None ]

\* Array.prototype.join(',') of the attribute ids.
RECURSIVE JoinIds(_)
JoinIds(ids) ==
    IF Len(ids) <= 1 THEN ids
    ELSE <<Head(ids), ",">> \o JoinIds(Tail(ids))

\* fetchProducts of UV_ProductListing with no page parameter.
fetchProductsParamsWithoutPage(filters) ==
    [ NoParams EXCEPT
        !.sort_by = IF Truthy(filters.sort_by) THEN filters.sort_by ELSE None,
        !.sort_order = IF Truthy(filters.sort_order) THEN filters.sort_order ELSE None,
        !.min_sustainability_score =
            IF filters.min_sustainability_score # None
            THEN Some(NumberToString(Val(filters.min_sustainability_score))) ELSE None,
        !.pageSize = Some(IntToString(filters.pageSize)) ]

\* fetchProducts of UV_ProductListing: the URLSearchParams it sends.
fetchProductsParams(filters) ==
    [ q |-> IF Truthy(filters.search_term) THEN filters.search_term ELSE None,
      category_id |-> IF Truthy(filters.category_id) THEN filters.category_id ELSE None,
      brand_name |-> IF Truthy(filters.brand_name) THEN filters.brand_name ELSE None,
      min_sustainability_score |->
          IF filters.min_sustainability_score # None
          THEN Some(NumberToString(Val(filters.min_sustainability_score))) ELSE None,
      min_ethical_score |->
          IF filters.min_ethical_score # None
          THEN Some(NumberToString(Val(filters.min_ethical_score))) ELSE None,
      min_durability_score |->
          IF filters.min_durability_score # None
          THEN Some(NumberToString(Val(filters.min_durability_score))) ELSE None,
      attribute_ids |->
          IF filters.attribute_ids # <<>> THEN Some(JoinIds(filters.attribute_ids)) ELSE None,
      sort_by |-> IF Truthy(filters.sort_by) THEN filters.sort_by ELSE None,
      sort_order |-> IF Truthy(filters.sort_order) THEN filters.sort_order ELSE None,
      page |-> Some(IntToString(filters.page)),
      pageSize |-> Some(IntToString(filters.pageSize)) ]

\* buildQueryParams of UV_SearchResults with the minimum scores tested for
\* truthiness, as the strings are: a minimum of 0 is not sent.
buildQueryParamsTruthy(search_term, category_id, brand_name, min_sustainability_score, min_ethical_score, min_durability_score, attribute_ids, sort_by, sort_order, page, pageSize) ==
    [ NoParams EXCEPT
        !.min_sustainability_score =
            IF min_sustainability_score = None THEN None
            ELSE IF Val(min_sustainability_score) = 0 THEN None
            ELSE Some(NumberToString(Val(min_sustainability_score))),
        !.sort_by = IF Truthy(sort_by) THEN sort_by ELSE None,
        !.sort_order = IF Truthy(sort_order) THEN sort_order ELSE None,
        !.page = Some(IntToString(page)),
        !.pageSize = Some(IntToString(pageSize)) ]

\* buildQueryParams of UV_SearchResults.
buildQueryParams(search_term, category_id, brand_name, min_sustainability_score, min_ethical_score, min_durability_score, attribute_ids, sort_by, sort_order, page, pageSize) ==
    [ q |-> IF Truthy(search_term) THEN search_term ELSE None,
      category_id |-> IF Truthy(category_id) THEN category_id ELSE None,
      brand_name |-> IF Truthy(brand_name) THEN brand_name ELSE None,
      min_sustainability_score |->
          IF min_sustainability_score # None
          THEN Some(NumberToString(Val(min_sustainability_score))) ELSE None,
      min_ethical_score |->
          IF min_ethical_score # None
          THEN Some(NumberToString(Val(min_ethical_score))) ELSE None,
      min_durability_score |->
          IF min_durability_score # None
          THEN Some(NumberToString(Val(min_durability_score))) ELSE None,
      attribute_ids |->
          IF attribute_ids # <<>> THEN Some(JoinIds(attribute_ids)) ELSE None,
      sort_by |-> IF Truthy(sort_by) THEN sort_by ELSE None,
      sort_order |-> IF Truthy(sort_order) THEN sort_order ELSE None,
      page |-> Some(IntToString(page)),
      pageSize |-> Some(IntToString(pageSize)) ]

\* -------------------------------------------------- server: GET /products
\* page and pageSize with the defaults of the endpoint.
defaultPage == 1
defaultPageSize == 20
PageOf(params) == IF params.page = None THEN defaultPage ELSE ParseInt(Val(params.page))
PageSizeOf(params) ==
    IF params.pageSize = None THEN defaultPageSize ELSE ParseInt(Val(params.pageSize))

\* A minimum score keeps the rows whose score is not NULL and at least it.
ScoreAtLeast(score, param) ==
    IF param = None THEN TRUE
    ELSE IF score = None THEN FALSE
    ELSE Val(score) >= ParseNumber(Val(param))

Matches(row, params) ==
    /\ IF params.category_id = None THEN TRUE ELSE row.category_id = Val(params.category_id)
    /\ IF params.brand_name = None THEN TRUE ELSE row.brand_name = Val(params.brand_name)
    /\ ScoreAtLeast(row.sustainability_score, params.min_sustainability_score)
    /\ ScoreAtLeast(row.ethical_score, params.min_ethical_score)
    /\ ScoreAtLeast(row.durability_score, params.min_durability_score)

\* The rows of the table that match, by position.
Matching(table, params) == { i \in 1..Len(table) : Matches(table[i], params) }

\* The sort key of a row: with no sort_by every row has the same key.
SortKey(row, params) ==
    IF params.sort_by = Some("created_at") THEN row.created_at
    ELSE IF params.sort_by = Some("overall_score") THEN Val(row.overall_score)
    ELSE 0

\* Key a comes strictly before key b in the requested order.
Before(a, b, params) ==
    IF params.sort_order = Some("desc") THEN a > b ELSE a < b

\* The subsets of s that have k elements.
RECURSIVE KSubsets(_, _)
KSubsets(s, k) ==
    IF k = 0 THEN {{}}
    ELSE IF Cardinality(s) = k THEN {s}
    ELSE LET x == CHOOSE x \in s : TRUE IN
         KSubsets(s \ {x}, k) \cup { t \cup {x} : t \in KSubsets(s \ {x}, k - 1) }

\* Of every key among the rows of split, onPage of its rows, whichever.
RECURSIVE SplitChoices(_, _, _)
SplitChoices(split, key, onPage) ==
    IF split = {} THEN {{}}
    ELSE LET i == CHOOSE i \in split : TRUE
             g == { j \in split : key[j] = key[i] }
         IN { a \cup b : a \in KSubsets(g, onPage[i]),
                         b \in SplitChoices(split \ g, key, onPage) }

\* The sets of rows the store can return for the page.  A matching row comes
\* after every row that sorts strictly before it and among the rows of its
\* own key in any order, which the endpoint leaves to the store: of every
\* key, as many rows as fall on the page, whichever they are.
PageSets(table, params) ==
    LET lo == (PageOf(params) - 1) * PageSizeOf(params) + 1
        hi == PageOf(params) * PageSizeOf(params)
        m == Matching(table, params)
        key == [i \in m |-> SortKey(table[i], params)]
        first == [i \in m |->
                    1 + Cardinality({j \in m : Before(key[j], key[i], params)})]
        last == [i \in m |->
                    Cardinality({j \in m : ~Before(key[i], key[j], params)})]
        onPage == [i \in m |-> Max(0, Min(last[i], hi) - Max(first[i], lo) + 1)]
        whole == { i \in m : onPage[i] = last[i] - first[i] + 1 }
        split == { i \in m : onPage[i] > 0 /\ onPage[i] < last[i] - first[i] + 1 }
    IN { whole \cup t : t \in SplitChoices(split, key, onPage) }

\* The rows of a page in order: by key, rows of one key in table order.
RECURSIVE PageSeq(_, _, _)
PageSeq(table, params, rows) ==
    IF rows = {} THEN <<>>
    ELSE LET first == CHOOSE i \in rows : \A j \in rows \ {i} :
                          \/ Before(SortKey(table[i], params), SortKey(table[j], params), params)
                          \/ /\ SortKey(table[i], params) = SortKey(table[j], params)
                             /\ i < j
         IN <<table[first].product_id>> \o PageSeq(table, params, rows \ {first})

\* search_and_filter_products on the parameters, the store having chosen rows.
ProductsAnswer(table, params, rows) ==
    [ products |-> PageSeq(table, params, rows),
      pagination |-> [ currentPage |-> PageOf(params),
                       pageSize |-> PageSizeOf(params),
                       totalProducts |-> Cardinality(Matching(table, params)) ] ]

\* --------------------------------------------------------- the two clients
\* What the views ask for: a minimum sustainability score or none, a sort by
\* creation time or by overall score, the first or the second page of ten.
MinScoreInputs == {None, Some(0), Some(450)}
SortInputs == {Some("created_at"), Some("overall_score")}
PageInputs == {1, 2}
PageSizeInputs == {10}

ListingFilters ==
    [ search_term : {None}, category_id : {None}, brand_name : {None},
      min_sustainability_score : MinScoreInputs,
      min_ethical_score : {None}, min_durability_score : {None},
      attribute_ids : {<<>>},
      sort_by : SortInputs, sort_order : {Some("desc")},
      page : PageInputs, pageSize : PageSizeInputs ]

\* One answer kept with what was asked.  An answer for another page of the
\* query answered last is kept next to it; any other answer starts afresh.
SameQuery(a, b) ==
    /\ a.asked.min_sustainability_score = b.asked.min_sustainability_score
    /\ a.asked.sort_by = b.asked.sort_by
    /\ a.asked.sort_order = b.asked.sort_order
    /\ a.asked.pageSize = b.asked.pageSize

Keep(kept, a) ==
    IF kept = <<>> THEN <<a>>
    ELSE IF SameQuery(kept[Len(kept)], a) /\ kept[Len(kept)].asked.page # a.asked.page
    THEN <<kept[Len(kept)], a>>
    ELSE <<a>>

\* UV_ProductListing's query: fetchProducts and the endpoint's answer.
fetchProducts(filters) ==
    /\ \E rows \in PageSets(products, fetchProductsParams(filters)) :
          answers' = Keep(answers,
              [ view |-> "UV_ProductListing", asked |-> filters,
                params |-> fetchProductsParams(filters),
                data |-> ProductsAnswer(products, fetchProductsParams(filters), rows) ])
    /\ UNCHANGED <<products, catalogOthers>>

\* UV_SearchResults' page size, and its query, which is enabled when a filter
\* is set: fetchProductsBySearch and the endpoint's answer.
pageSize == 20

fetchProductsBySearch(search_term, category_id, brand_name, min_sustainability_score, min_ethical_score, min_durability_score, attribute_ids, sort_by, sort_order, page, limit) ==
    LET queryParams == buildQueryParams(search_term, category_id, brand_name,
                           min_sustainability_score, min_ethical_score,
                           min_durability_score, attribute_ids, sort_by,
                           sort_order, page, limit)
    IN
    /\ \E rows \in PageSets(products, queryParams) :
          answers' = Keep(answers,
              [ view |-> "UV_SearchResults",
                asked |-> [ min_sustainability_score |-> min_sustainability_score,
                            sort_by |-> sort_by, sort_order |-> sort_order,
                            page |-> page, pageSize |-> limit ],
                params |-> queryParams,
                data |-> ProductsAnswer(products, queryParams, rows) ])
    /\ UNCHANGED <<products, catalogOthers>>

\* ------------------------------------------------ INSERT INTO products
\* product_id PRIMARY KEY.
ProductsRowOk(table, row) ==
    \A i \in 1..Len(table) : table[i].product_id # row.product_id

NewProducts ==
    { [ product_id |-> "prod_011", name |-> "Bamboo Toothbrush",
        created_at |-> 1150,
        brand_name |-> "BrushWell", category_id |-> "cat_004",
        overall_score |-> Some(430), sustainability_score |-> None,
        ethical_score |-> Some(440), durability_score |-> Some(400) ],
      [ product_id |-> "prod_011", name |-> "Bamboo Toothbrush",
        created_at |-> 1145,
        brand_name |-> "BrushWell", category_id |-> "cat_004",
        overall_score |-> Some(430), sustainability_score |-> Some(440),
        ethical_score |-> Some(440), durability_score |-> Some(400) ],
      [ product_id |-> "prod_012", name |-> "Hemp Tote Bag",
        created_at |-> 1155,
        brand_name |-> "EverGreen Apparel", category_id |-> "cat_002",
        overall_score |-> Some(480), sustainability_score |-> Some(500),
        ethical_score |-> Some(470), durability_score |-> Some(450) ] }

\* A product added to the catalogue.  The answers kept were for the catalogue
\* as it was, and are dropped.
CreateProduct(row) ==
    /\ Len(products) < Len(SeedProducts) + MaxNewProducts
    /\ ProductsRowOk(products, row)
    /\ products' = Append(products, row)
    /\ answers' = <<>>
    /\ UNCHANGED catalogOthers

NextCatalog ==
    \/ \E filters \in ListingFilters : fetchProducts(filters)
    \/ \E min \in MinScoreInputs \ {None}, sort_by \in SortInputs, page \in PageInputs :
          fetchProductsBySearch(None, None, None, min, None, None, <<>>,
                                sort_by, Some("desc"), page, pageSize)
    \/ \E row \in NewProducts : CreateProduct(row)

\* ======================================================= UV_ProductListing
\* parseInt(str, 10): the number the leading digits make, NaN (None) when
\* the string starts with none.
RECURSIVE LeadingDigits(_)
LeadingDigits(str) ==
    IF str = <<>> THEN <<>>
    ELSE IF \E n \in 0..9 : Digits[n + 1] = Head(str)
    THEN <<Head(str)>> \o LeadingDigits(Tail(str))
    ELSE <<>>

parseInt(str) ==
    IF LeadingDigits(str) = <<>> THEN None ELSE Some(ParseInt(LeadingDigits(str)))

\* Number.prototype.toString of a page number, which may be NaN.
PageToString(n) == IF n = None THEN <<"N", "a", "N">> ELSE IntToString(Val(n))

\* parseFloatParam: null for an absent, empty or non-numeric parameter.
parseFloatParam(value) ==
    IF value = None THEN None
    ELSE IF LeadingDigits(Val(value)) = <<>> THEN None
    ELSE Some(ParseNumber(Val(value)))

\* a ?? b
Coalesce(a, b) == IF a # None THEN a ELSE b

\* The filters slice of the store as created.
InitialFilters ==
    [ search_term |-> None, category_id |-> None, brand_name |-> None,
      min_sustainability_score |-> None, min_ethical_score |-> None,
      min_durability_score |-> None, attribute_ids |-> <<>>,
      sort_by |-> None, sort_order |-> None ]

\* The actions the store defines on products, filters and sorting.
StoreActions ==
    { "set_products_data", "set_pagination_info", "set_products_loading",
      "set_products_error", "set_search_term", "set_category_filter",
      "set_brand_filter", "set_score_filter", "toggle_attribute_filter",
      "set_attribute_filters", "set_sort", "clear_all_filters" }

set_search_term(f, term) ==
    [ f EXCEPT !.search_term = term, !.category_id = None, !.brand_name = None,
               !.attribute_ids = <<>>, !.min_sustainability_score = None,
               !.min_ethical_score = None, !.min_durability_score = None ]
set_category_filter(f, category_id) == [f EXCEPT !.category_id = category_id]
set_brand_filter(f, brand_name) == [f EXCEPT !.brand_name = brand_name]
set_score_filter(f, score_type, value) ==
    IF score_type = "sustainability" THEN [f EXCEPT !.min_sustainability_score = value]
    ELSE IF score_type = "ethical" THEN [f EXCEPT !.min_ethical_score = value]
    ELSE [f EXCEPT !.min_durability_score = value]
set_attribute_filters(f, attribute_ids) == [f EXCEPT !.attribute_ids = attribute_ids]
set_sort(f, sort_by, sort_order) ==
    [f EXCEPT !.sort_by = sort_by, !.sort_order = sort_order]
clear_all_filters == InitialFilters

\* A run of statements over the store: the filters so far, and whether a
\* statement has thrown.  useAppStore(state => state[key]) is undefined for a
\* key the store does not define, and calling it throws a TypeError that ends
\* the run.
Run(f) == [filters |-> f, thrown |-> FALSE]

Call(st, key, cond, result) ==
    IF st.thrown \/ ~cond THEN st
    ELSE IF key \in StoreActions THEN [st EXCEPT !.filters = result]
    ELSE [st EXCEPT !.thrown = TRUE]

\* The view with no query parameter.
NoUrl ==
    [ q |-> None, category_id |-> None, brand_name |-> None,
      min_sustainability_score |-> None, min_ethical_score |-> None,
      min_durability_score |-> None, attribute_ids |-> None,
      sort_by |-> None, sort_order |-> None, page |-> None, pageSize |-> None ]

\* searchParams.get(key) || fallback
OrElse(value, fallback) ==
    IF value = None THEN fallback ELSE IF Val(value) = <<>> THEN fallback ELSE Val(value)

\* currentFiltersState: the store's value of each filter, the URL's where the
\* store has none.  The store has no page and no pageSize.
currentFiltersState(u, g) ==
    [ search_term |-> Coalesce(g.search_term, u.q),
      category_id |-> Coalesce(g.category_id, u.category_id),
      brand_name |-> Coalesce(g.brand_name, u.brand_name),
      min_sustainability_score |->
          Coalesce(g.min_sustainability_score, parseFloatParam(u.min_sustainability_score)),
      min_ethical_score |->
          Coalesce(g.min_ethical_score, parseFloatParam(u.min_ethical_score)),
      min_durability_score |->
          Coalesce(g.min_durability_score, parseFloatParam(u.min_durability_score)),
      attribute_ids |-> g.attribute_ids,
      sort_by |-> Coalesce(g.sort_by, u.sort_by),
      sort_order |-> Coalesce(g.sort_order, u.sort_order),
      page |-> parseInt(OrElse(u.page, <<"1">>)),
      pageSize |-> parseInt(OrElse(u.pageSize, <<"2", "0">>)) ]

\* The URL that useQuery's onSuccess sets from currentFiltersState.
onSuccessSearchParams(c) ==
    [ q |-> IF Truthy(c.search_term) THEN c.search_term ELSE None,
      category_id |-> IF Truthy(c.category_id) THEN c.category_id ELSE None,
      brand_name |-> IF Truthy(c.brand_name) THEN c.brand_name ELSE None,
      min_sustainability_score |->
          IF c.min_sustainability_score # None
          THEN Some(NumberToString(Val(c.min_sustainability_score))) ELSE None,
      min_ethical_score |->
          IF c.min_ethical_score # None
          THEN Some(NumberToString(Val(c.min_ethical_score))) ELSE None,
      min_durability_score |->
          IF c.min_durability_score # None
          THEN Some(NumberToString(Val(c.min_durability_score))) ELSE None,
      attribute_ids |->
          IF c.attribute_ids # <<>> THEN Some(JoinIds(c.attribute_ids)) ELSE None,
      sort_by |-> IF Truthy(c.sort_by) THEN c.sort_by ELSE None,
      sort_order |-> IF Truthy(c.sort_order) THEN c.sort_order ELSE None,
      page |-> Some(PageToString(c.page)),
      pageSize |-> Some(PageToString(c.pageSize)) ]

\* urlAttributes?.split(',').filter(Boolean) || []
RECURSIVE SplitIds(_)
SplitIds(str) ==
    IF str = <<>> THEN <<>>
    ELSE IF Head(str) = "," THEN SplitIds(Tail(str))
    ELSE <<Head(str)>> \o SplitIds(Tail(str))

\* syncUrlToZustand on the URL u, with globalFilters g as the effect's closure
\* holds it: the filters it leaves in the store, and whether it threw.
syncUrlToZustand(u, g) ==
    LET sustScore == parseFloatParam(u.min_sustainability_score)
        ethScore == parseFloatParam(u.min_ethical_score)
        durScore == parseFloatParam(u.min_durability_score)
        attrIds == IF u.attribute_ids = None THEN <<>> ELSE SplitIds(Val(u.attribute_ids))
        pageNum == parseInt(OrElse(u.page, <<"1">>))
        pageSizeNum == parseInt(OrElse(u.pageSize, <<"2", "0">>))
        s0 == Run(g)
        s1 == IF u.q # None /\ u.q # g.search_term
              THEN Call(s0, "set_search_term", TRUE, set_search_term(s0.filters, u.q))
              ELSE Call(s0, "set_search_term", u.q = None /\ g.search_term # None,
                        set_search_term(s0.filters, None))
        s2 == IF u.category_id # None /\ u.category_id # g.category_id
              THEN Call(s1, "set_category_id", TRUE,
                        set_category_filter(s1.filters, u.category_id))
              ELSE Call(s1, "set_category_id", u.category_id = None /\ g.category_id # None,
                        set_category_filter(s1.filters, None))
        s3 == IF u.brand_name # None /\ u.brand_name # g.brand_name
              THEN Call(s2, "set_brand_name", TRUE,
                        set_brand_filter(s2.filters, u.brand_name))
              ELSE Call(s2, "set_brand_name", u.brand_name = None /\ g.brand_name # None,
                        set_brand_filter(s2.filters, None))
        s4 == Call(s3, "set_score_filter", sustScore # g.min_sustainability_score,
                   set_score_filter(s3.filters, "sustainability", sustScore))
        s5 == Call(s4, "set_score_filter", ethScore # g.min_ethical_score,
                   set_score_filter(s4.filters, "ethical", ethScore))
        s6 == Call(s5, "set_score_filter", durScore # g.min_durability_score,
                   set_score_filter(s5.filters, "durability", durScore))
        s7 == Call(s6, "set_attribute_filters", attrIds # g.attribute_ids,
                   set_attribute_filters(s6.filters, attrIds))
        s8 == IF u.sort_by # None /\ u.sort_by # g.sort_by
              THEN Call(s7, "set_sort", TRUE, set_sort(s7.filters, u.sort_by, u.sort_order))
              ELSE Call(s7, "set_sort", u.sort_by = None /\ g.sort_by # None,
                        set_sort(s7.filters, None, None))
        \* globalFilters.page and globalFilters.pageSize are undefined
        s9 == Call(s8, "set_page_filter", pageNum # None, s8.filters)
    IN Call(s9, "set_page_size_filter", pageSizeNum # None, s9.filters)

\* applyFilter(filterName, value), then the reset of the page to 1.
applyFilter(st, filterName, value) ==
    LET a == IF filterName = "search_term"
             THEN Call(st, "set_search_term", TRUE, set_search_term(st.filters, value))
             ELSE IF filterName = "category_id"
             THEN Call(st, "set_category_id", TRUE, set_category_filter(st.filters, value))
             ELSE IF filterName = "brand_name"
             THEN Call(st, "set_brand_name", TRUE, set_brand_filter(st.filters, value))
             ELSE IF filterName = "min_sustainability_score"
             THEN Call(st, "set_score_filter", TRUE,
                       set_score_filter(st.filters, "sustainability", value))
             ELSE IF filterName = "min_ethical_score"
             THEN Call(st, "set_score_filter", TRUE,
                       set_score_filter(st.filters, "ethical", value))
             ELSE IF filterName = "min_durability_score"
             THEN Call(st, "set_score_filter", TRUE,
                       set_score_filter(st.filters, "durability", value))
             ELSE IF filterName = "page"
             THEN Call(st, "set_page_filter", TRUE, st.filters)
             ELSE st
    IN Call(a, "set_page_filter", filterName \notin {"page", "pageSize", "sort_by", "sort_order"},
            a.filters)

\* The view settled: no effect due and no fetch in flight.
ListingSettled == lv.status = "mounted" /\ ~lv.effectDue /\ ~lv.fetching

\* What a statement run of a handler leaves: the store as the run left it,
\* the effect due when globalFilters changed, a fetch when the query key did.
AfterRun(st, choice) ==
    /\ globalFilters' = st.filters
    /\ lv' = [ lv EXCEPT !.effectDue = (st.filters # globalFilters),
                         !.fetching = (currentFiltersState(url, st.filters)
                                          # currentFiltersState(url, globalFilters)),
                         !.chosen = choice ]
    /\ UNCHANGED <<url, listingOthers>>

\* The view is opened at a URL: the first render, its effects due and the
\* first fetch under way.
ListingUrls ==
    { [ NoUrl EXCEPT !.q = q, !.category_id = c, !.brand_name = b,
                     !.min_sustainability_score = m, !.sort_by = s[1],
                     !.sort_order = s[2], !.page = p, !.pageSize = z ] :
        q \in {None, Some("eco")}, c \in {None, Some("cat_001")},
        b \in {None, Some("AquaLife")}, m \in {None, Some(<<"4", ".", "5">>)},
        s \in {<<None, None>>, <<Some("created_at"), Some("desc")>>},
        p \in {None, Some(<<"2">>), Some(<<"x">>)},
        z \in {None, Some(<<"y">>)} }

OpenListing(u) ==
    /\ lv.status = "unmounted"
    /\ url' = u
    /\ lv' = [ lv EXCEPT !.status = "mounted", !.effectDue = TRUE, !.fetching = TRUE ]
    /\ UNCHANGED <<globalFilters, listingOthers>>

\* The effect that runs syncUrlToZustand.  A throw in an effect is caught by
\* App's ErrorBoundary, whose fallback replaces the view: the view is down and
\* its fetch is answered to nobody.
syncEffect ==
    /\ lv.status = "mounted"
    /\ lv.effectDue
    /\ \E st \in {syncUrlToZustand(url, globalFilters)} :
          /\ globalFilters' = st.filters
          /\ lv' = IF st.thrown
                   THEN [ lv EXCEPT !.status = "crashed", !.effectDue = FALSE,
                                    !.fetching = FALSE ]
                   ELSE [ lv EXCEPT !.effectDue = (st.filters # globalFilters),
                                    !.fetching = lv.fetching
                                        \/ (currentFiltersState(url, st.filters)
                                               # currentFiltersState(url, globalFilters)) ]
    /\ UNCHANGED <<url, listingOthers>>

\* handleFilterChange from the search box, the category select and the
\* brand input.  A throw in an event handler ends the handler and leaves the
\* view up.
FilterChanges ==
    { <<"search_term", Some("eco")>>, <<"search_term", None>>,
      <<"category_id", Some("cat_001")>>, <<"brand_name", Some("AquaLife")>> }

handleFilterChangeRun(g, filterName, value) ==
    LET c0 == Run(g)
        c1 == Call(c0, "set_category_id", TRUE, set_category_filter(c0.filters, None))
        c2 == Call(c1, "set_brand_name", TRUE, set_brand_filter(c1.filters, None))
        c3 == Call(c2, "set_attribute_filters", TRUE,
                   set_attribute_filters(c2.filters, <<>>))
        c4 == Call(c3, "set_score_filter", TRUE,
                   set_score_filter(c3.filters, "sustainability", None))
        c5 == Call(c4, "set_score_filter", TRUE,
                   set_score_filter(c4.filters, "ethical", None))
        c6 == Call(c5, "set_score_filter", TRUE,
                   set_score_filter(c5.filters, "durability", None))
    IN applyFilter(IF filterName = "search_term" /\ Truthy(value) THEN c6 ELSE c0,
                   filterName, value)

handleFilterChange(filterName, value) ==
    /\ ListingSettled
    /\ AfterRun(handleFilterChangeRun(globalFilters, filterName, value),
                Some([filter |-> filterName, value |-> value]))

\* handleScoreChange of a slider.
handleScoreChange(scoreType, value) ==
    handleFilterChange(IF scoreType = "sustainability" THEN "min_sustainability_score"
                       ELSE IF scoreType = "ethical" THEN "min_ethical_score"
                       ELSE "min_durability_score",
                       value)

\* handleSortChange: set_sort, then applyFilter('page', 1).
handleSortChangeRun(g, sortBy, sortOrder) ==
    applyFilter(Call(Run(g), "set_sort", TRUE, set_sort(g, Some(sortBy), Some(sortOrder))),
                "page", Some(1))

handleSortChange(sortBy, sortOrder) ==
    /\ ListingSettled
    /\ AfterRun(handleSortChangeRun(globalFilters, sortBy, sortOrder),
                Some([filter |-> "sort_by", value |-> Some(sortBy)]))

\* clearAllFiltersHandler: clear_all_filters, and the URL reset to page 1 of 20.
clearAllFiltersHandler ==
    /\ ListingSettled
    /\ globalFilters' = clear_all_filters
    /\ url' = [ NoUrl EXCEPT !.page = Some(<<"1">>), !.pageSize = Some(<<"2", "0">>) ]
    /\ lv' = [ lv EXCEPT !.effectDue = (url' # url \/ globalFilters' # globalFilters),
                         !.fetching = (currentFiltersState(url', globalFilters')
                                          # currentFiltersState(url, globalFilters)),
                         !.chosen = None ]
    /\ UNCHANGED listingOthers

\* The fetch succeeds and useQuery calls onSuccess, which sets the URL.  The
\* effects of a render run before any answer arrives.
useQueryOnSuccess(totalPages) ==
    /\ lv.status = "mounted"
    /\ lv.fetching
    /\ ~lv.effectDue
    /\ url' = onSuccessSearchParams(currentFiltersState(url, globalFilters))
    /\ lv' = [ lv EXCEPT !.fetching = FALSE, !.effectDue = (url' # url),
                         !.totalPages = Some(totalPages) ]
    /\ UNCHANGED <<globalFilters, listingOthers>>

\* The fetch fails and the view has no data, or it ends with the data, of
\* so many pages, and no callback called: neither the URL nor the filters
\* change.
useQueryOnError(data) ==
    /\ lv.status = "mounted"
    /\ lv.fetching
    /\ ~lv.effectDue
    /\ lv' = [ lv EXCEPT !.fetching = FALSE, !.totalPages = data ]
    /\ UNCHANGED <<url, globalFilters, listingOthers>>

\* The pagination controls are rendered with the data when it has more than
\* one page; Previous is disabled on page 1 and Next on the last page.  On
\* the page NaN neither is disabled, and page - 1 and page + 1 are NaN.
PageButtonEnabled(pageNumber) ==
    LET page == currentFiltersState(url, globalFilters).page IN
    /\ lv.totalPages # None
    /\ Val(lv.totalPages) > 1
    /\ IF page = None THEN pageNumber = None
       ELSE \/ pageNumber = Some(Val(page) - 1) /\ ~(Val(page) <= 1)
            \/ pageNumber = Some(Val(page) + 1) /\ ~(Val(page) >= Val(lv.totalPages))

\* handlePageChange(pageNumber): applyFilter('page', pageNumber).
handlePageChangeRun(g, pageNumber) == applyFilter(Run(g), "page", pageNumber)

handlePageChange(pageNumber) ==
    /\ ListingSettled
    /\ PageButtonEnabled(pageNumber)
    /\ \E st \in {handlePageChangeRun(globalFilters, pageNumber)} :
          AfterRun(st, Some([ filter |-> "page", value |-> pageNumber,
                              thrown |-> st.thrown ]))

\* The numbers of pages of the answers in this specification.
PageCounts == {1, 3}

InitListing ==
    /\ url = NoUrl
    /\ globalFilters = InitialFilters
    /\ lv = [ status |-> "unmounted", effectDue |-> FALSE, fetching |-> FALSE,
              chosen |-> None, totalPages |-> None ]

NextListing ==
    \/ \E u \in ListingUrls : OpenListing(u)
    \/ syncEffect
    \/ \E change \in FilterChanges : handleFilterChange(change[1], change[2])
    \/ \E value \in {None, Some(450)} : handleScoreChange("sustainability", value)
    \/ handleSortChange("created_at", "desc")
    \/ clearAllFiltersHandler
    \/ \E totalPages \in PageCounts : useQueryOnSuccess(totalPages)
    \/ \E data \in {None} \union {Some(n) : n \in PageCounts} : useQueryOnError(data)
    \/ \E pageNumber \in {None} \union {Some(n) : n \in 0..MaxPage} :
          handlePageChange(pageNumber)

\* ========================================= UV_ProductListing: the product queries
\* useQuery({queryKey: ['products', currentFiltersState], queryFn, onSuccess,
\* onError}): every render observes the query of its key.  A key that is
\* neither in flight nor cached starts a fetch; a fetch whose key the view has
\* left goes on, and its response goes to the cache only.  A cached response
\* is fresh for staleTime, and its key starts no fetch.
InitQueries ==
    lq = [ inflight |-> {}, cached |-> {}, items |-> None, resolved |-> <<>>, started |-> 0 ]

\* The render at URL u and filters f: the query of its key, started when there
\* is none.
StartQuery(q, u, f) ==
    IF currentFiltersState(u, f) \in q.inflight \union q.cached THEN q
    ELSE [ q EXCEPT !.inflight = @ \union {currentFiltersState(u, f)},
                    !.started = @ + 1 ]

\* Whether the render would start a fetch.
StartsQuery(q, u, f) == currentFiltersState(u, f) \notin q.inflight \union q.cached

\* The last two fetches that ended, oldest first, each with the key the view
\* showed when it ended and the fetches then still in flight.
Ended(q, key, ok, called) ==
    LET e == [ key |-> key, ok |-> ok, called |-> called,
               shown |-> IF lv.status = "mounted"
                         THEN Some(currentFiltersState(url, globalFilters)) ELSE None,
               others |-> q.inflight \ {key} ]
    IN IF Len(q.resolved) < 2 THEN Append(q.resolved, e) ELSE <<q.resolved[2], e>>

\* The callbacks of a query reach every observer, also one that has moved to
\* another key.
ObservedWhateverKey(status, shown, key) == status = "mounted"

\* The view observes the query of the key it shows, and no other.
Observed(status, shown, key) == status = "mounted" /\ shown = key

\* The view is opened at URL u while product queries may be cached.
mountListing(u) ==
    /\ lv.status = "unmounted"
    /\ url' = u
    /\ lv' = [ lv EXCEPT !.status = "mounted", !.effectDue = TRUE, !.fetching = TRUE ]
    /\ lq' = StartQuery(lq, u, globalFilters)
    /\ UNCHANGED <<globalFilters, queryOthers>>

\* The sync effect after a render, and the render its store changes cause.
runSyncEffect ==
    /\ lv.status = "mounted"
    /\ lv.effectDue
    /\ \E st \in {syncUrlToZustand(url, globalFilters)} :
          /\ StartsQuery(lq, url, st.filters) => lq.started < MaxFetches
          /\ globalFilters' = st.filters
          /\ lv' = IF st.thrown
                   THEN [ lv EXCEPT !.status = "crashed", !.effectDue = FALSE ]
                   ELSE [ lv EXCEPT !.effectDue = (st.filters # globalFilters) ]
          /\ lq' = IF st.thrown THEN lq ELSE StartQuery(lq, url, st.filters)
    /\ UNCHANGED <<url, queryOthers>>

\* A statement run of a handler while fetches are in flight.
AfterRunInFlight(st) ==
    /\ lv.status = "mounted"
    /\ ~lv.effectDue
    /\ StartsQuery(lq, url, st.filters) => lq.started < MaxFetches
    /\ globalFilters' = st.filters
    /\ lv' = [ lv EXCEPT !.effectDue = (st.filters # globalFilters) ]
    /\ lq' = StartQuery(lq, url, st.filters)
    /\ UNCHANGED <<url, queryOthers>>

changeFilter(filterName, value) ==
    /\ lv.status = "mounted"
    /\ AfterRunInFlight(handleFilterChangeRun(globalFilters, filterName, value))

changeSort(sortBy, sortOrder) ==
    /\ lv.status = "mounted"
    /\ AfterRunInFlight(handleSortChangeRun(globalFilters, sortBy, sortOrder))

\* The URL is changed from outside the view: a link, the address bar, the
\* history.
navigate(u) ==
    /\ lv.status = "mounted"
    /\ ~lv.effectDue
    /\ u # url
    /\ StartsQuery(lq, u, globalFilters) => lq.started < MaxFetches
    /\ url' = u
    /\ lv' = [ lv EXCEPT !.effectDue = TRUE ]
    /\ lq' = StartQuery(lq, u, globalFilters)
    /\ UNCHANGED <<globalFilters, queryOthers>>

\* The fetch of key resolves.  Its observer's onSuccess, where the installed
\* useQuery calls it, writes the products and the pagination to the store and
\* sets the URL.
fetchResolves(key, called) ==
    /\ key \in lq.inflight
    /\ ~lv.effectDue
    /\ called => Observed(lv.status, currentFiltersState(url, globalFilters), key)
    \* the URL onSuccess sets leaves the view on the key it shows
    /\ called => currentFiltersState(onSuccessSearchParams(
                      currentFiltersState(url, globalFilters)), globalFilters)
                    = currentFiltersState(url, globalFilters)
    /\ url' = IF called THEN onSuccessSearchParams(currentFiltersState(url, globalFilters))
              ELSE url
    /\ lv' = [ lv EXCEPT !.effectDue = (url' # url) ]
    /\ lq' = [ lq EXCEPT !.inflight = @ \ {key},
                         !.cached = @ \union {key},
                         !.items = IF called THEN Some(key) ELSE @,
                         !.resolved = Ended(lq, key, TRUE, called) ]
    /\ UNCHANGED <<globalFilters, queryOthers>>

\* The fetch of key fails for good.  Its observer's onError empties the
\* store's products.
fetchRejects(key, called) ==
    /\ key \in lq.inflight
    /\ ~lv.effectDue
    /\ called => Observed(lv.status, currentFiltersState(url, globalFilters), key)
    /\ lq' = [ lq EXCEPT !.inflight = @ \ {key},
                         !.items = IF called THEN None ELSE @,
                         !.resolved = Ended(lq, key, FALSE, called) ]
    /\ UNCHANGED <<url, globalFilters, lv, queryOthers>>

\* URLs at which the view stays up, and one at which its effect throws.
QueryUrls ==
    { [ NoUrl EXCEPT !.q = q, !.page = p, !.pageSize = Some(<<"y">>) ] :
        q \in {None, Some("eco")}, p \in {Some(<<"x">>), Some(<<"2">>)} }

NextQueries ==
    \/ \E u \in QueryUrls : mountListing(u)
    \/ runSyncEffect
    \/ \E change \in FilterChanges : changeFilter(change[1], change[2])
    \/ changeSort("created_at", "desc")
    \/ \E u \in QueryUrls : navigate(u)
    \/ \E key \in lq.inflight, called \in BOOLEAN : fetchResolves(key, called)
    \/ \E key \in lq.inflight, called \in BOOLEAN : fetchRejects(key, called)

\* ============================================================== the session
\* initialize_app as the store defines it, called by App's effect and by
\* UV_Landing's effect on every mount, so that calls overlap.  A call runs to
\* its first await in one step; each await is a request in flight.
InitSession ==
    sess = [ inits |-> <<>>, calls |-> 0, categories |-> FALSE, attributes |-> FALSE,
             now |-> DateNow, route |-> "/login", ended |-> None, step |-> "none",
             run |-> None ]

\* storedAuth.access_token && storedAuth.token_expiration &&
\* storedAuth.token_expiration > Date.now()
TokenUsable(a, now) ==
    /\ a.access_token # None
    /\ a.token_expiration # None
    /\ Val(a.token_expiration) > now

\* The users row a bearer token belongs to.
UserOfBearer(table, token) ==
    table[CHOOSE i \in 1..Len(table) : table[i].user_id = UserOfToken(token)]

\* A call from its step 2 on, with the store as st = [auth, notifications,
\* categories, attributes]: the next await, or the finally block.
Proceed(st, run) ==
    IF ~st.categories THEN [st |-> st, run |-> Some([run EXCEPT !.pc = "categories"])]
    ELSE IF ~st.attributes THEN [st |-> st, run |-> Some([run EXCEPT !.pc = "attributes"])]
    ELSE [ st |-> [st EXCEPT !.auth = set_auth_loading(st.auth, FALSE)], run |-> None ]

\* The same from step 3 on.
ProceedToAttributes(st, run) ==
    IF ~st.attributes THEN [st |-> st, run |-> Some([run EXCEPT !.pc = "attributes"])]
    ELSE [ st |-> [st EXCEPT !.auth = set_auth_loading(st.auth, FALSE)], run |-> None ]

StoreNow == [ auth |-> auth, notifications |-> notifications,
              categories |-> sess.categories, attributes |-> sess.attributes ]

\* The store and the calls after call i went on as r tells: the call is
\* replaced, or it ended and the store of that moment is recorded.
Continue(i, r, step) ==
    /\ auth' = r.st.auth
    /\ notifications' = r.st.notifications
    /\ sess' = [ sess EXCEPT
                   !.categories = r.st.categories,
                   !.attributes = r.st.attributes,
                   !.inits = IF r.run = None THEN RemoveAt(sess.inits, i)
                             ELSE [sess.inits EXCEPT ![i] = Val(r.run)],
                   !.ended = IF r.run = None
                             THEN Some([ run |-> sess.inits[i], auth |-> r.st.auth ])
                             ELSE @,
                   !.step = step,
                   !.run = Some(sess.inits[i]) ]
    /\ UNCHANGED <<users, appInit, loginNet, regErrors, regNet, sessionOthers>>

\* initialize_app(): set_auth_loading(true), then the GET /users/me with the
\* stored token, or clear_auth_state and the steps after it.
initialize_app(caller) ==
    /\ sess.calls < MaxInits
    /\ LET a == set_auth_loading(auth, TRUE)
           run == [ pc |-> "me", usable |-> TokenUsable(a, sess.now),
                    asked |-> TokenUsable(a, sess.now), meOk |-> FALSE,
                    access_token |-> a.access_token,
                    token_expiration |-> a.token_expiration ]
           r == IF TokenUsable(a, sess.now)
                THEN [ st |-> [StoreNow EXCEPT !.auth = a], run |-> Some(run) ]
                ELSE Proceed([StoreNow EXCEPT !.auth = clear_auth_state(a)], run)
       IN
       /\ auth' = r.st.auth
       /\ sess' = [ sess EXCEPT
                      !.inits = IF r.run = None THEN @ ELSE Append(@, Val(r.run)),
                      !.calls = @ + 1,
                      !.route = IF caller = "UV_Landing" THEN "/" ELSE @,
                      !.ended = IF r.run = None
                                THEN Some([ run |-> run, auth |-> r.st.auth ]) ELSE @,
                      !.step = "initialize_app",
                      !.run = Some(run) ]
    /\ UNCHANGED <<users, notifications, appInit, loginNet, regErrors, regNet,
                   sessionOthers>>

\* The answer to call i's GET /users/me: 200 with the profile, or an error.
usersMeAnswers(i, ok) ==
    /\ i \in 1..Len(sess.inits)
    /\ sess.inits[i].pc = "me"
    /\ LET run == [sess.inits[i] EXCEPT !.meOk = ok]
           u == UserOfBearer(users, Val(run.access_token))
           a == IF ok
                THEN [ set_auth_user(auth,
                         [ is_authenticated |-> TRUE, user_id |-> Some(u.user_id),
                           username |-> Some(u.username),
                           access_token |-> run.access_token,
                           token_expiration |-> run.token_expiration ])
                       EXCEPT !.email = Some(u.email) ]
                ELSE clear_auth_state(auth)
           n == IF ok THEN notifications
                ELSE show_notification("Session expired. Please log in again.", "warning")
       IN Continue(i, Proceed([StoreNow EXCEPT !.auth = a, !.notifications = n], run),
                   IF ok THEN "usersMeOk" ELSE "usersMeFailed")

\* The answer to call i's GET /categories.
categoriesAnswers(i, ok) ==
    /\ i \in 1..Len(sess.inits)
    /\ sess.inits[i].pc = "categories"
    /\ Continue(i, ProceedToAttributes(
                      [ StoreNow EXCEPT
                          !.categories = ok,
                          !.notifications =
                              IF ok THEN @
                              ELSE show_notification("Failed to load categories.", "error") ],
                      sess.inits[i]),
                "categories")

\* The answer to call i's GET /attributes, and the finally block.
attributesAnswers(i, ok) ==
    /\ i \in 1..Len(sess.inits)
    /\ sess.inits[i].pc = "attributes"
    /\ Continue(i, [ st |-> [ StoreNow EXCEPT
                               !.attributes = ok,
                               !.notifications =
                                   IF ok THEN @
                                   ELSE show_notification("Failed to load attributes.", "error"),
                               !.auth = set_auth_loading(auth, FALSE) ],
                     run |-> None ],
                "attributes")

\* A view's request is answered 401 and its handler calls clear_auth_state
\* and navigates to /login (UV_UserProfile's handleApiError).
handleApiError ==
    /\ auth.is_authenticated
    /\ auth.access_token # None
    /\ auth' = clear_auth_state(auth)
    /\ notifications' =
          show_notification("Your session has expired. Please log in again.", "warning")
    /\ sess' = [sess EXCEPT !.route = "/login", !.step = "handleApiError"]
    /\ UNCHANGED <<users, appInit, loginNet, regErrors, regNet, sessionOthers>>

\* The selectors of GV_TopNavigation on the store: state[key] is undefined
\* for a key the store does not define.
AuthStoreActions ==
    { "set_auth_user", "set_auth_loading", "set_auth_error", "clear_auth_state",
      "initialize_app" }

\* handleLogoutClick: handleLogout(), then navigate('/login').  Calling an
\* undefined handleLogout throws, and the handler ends there.
handleLogoutClick ==
    /\ auth.is_authenticated
    /\ auth' = IF "handleLogout" \in AuthStoreActions THEN clear_auth_state(auth) ELSE auth
    /\ sess' = [ sess EXCEPT
                   !.route = IF "handleLogout" \in AuthStoreActions THEN "/login" ELSE @,
                   !.step = "handleLogoutClick" ]
    /\ UNCHANGED <<users, notifications, appInit, loginNet, regErrors, regNet,
                   sessionOthers>>

\* The token's lifetime passes on the client's clock.
timePasses ==
    /\ sess.now = DateNow
    /\ sess' = [sess EXCEPT !.now = @ + expires_in * 1000, !.step = "timePasses"]
    /\ UNCHANGED <<authVars, sessionOthers>>

\* GV_TopNavigation's categories query puts its answer in the store.
setCategoriesInStore ==
    /\ ~sess.categories
    /\ sess' = [sess EXCEPT !.categories = TRUE, !.step = "setCategoriesInStore"]
    /\ UNCHANGED <<authVars, sessionOthers>>

\* The logins typed in this specification: two users, and a wrong password.
SessionLogins ==
    { <<emily_email, password_emily>>, <<paul_email, password_paul>>,
      <<emily_email, password_paul>> }

NextSession ==
    \/ \E caller \in {"App", "UV_Landing"} : initialize_app(caller)
    \/ \E i \in 1..MaxInits, ok \in BOOLEAN : usersMeAnswers(i, ok)
    \/ \E i \in 1..MaxInits, ok \in BOOLEAN : categoriesAnswers(i, ok)
    \/ \E i \in 1..MaxInits, ok \in BOOLEAN : attributesAnswers(i, ok)
    \/ handleApiError
    \/ handleLogoutClick
    \/ timePasses
    \/ setCategoriesInStore
    \/ \E login \in SessionLogins : loginHandleSubmit(login[1], login[2])
    \/ login_user
    \/ sess.now = DateNow /\ loginOnSuccess
    \/ loginOnError

\* ===================================================== UV_ProductDetail: votes
\* The reviews of the product shown, prod_001, with the seed's helpful_votes.
DetailReviews == {"rev_001", "rev_004"}

SeedHelpfulVotes == [ r \in DetailReviews |-> IF r = "rev_001" THEN 10 ELSE 2 ]

\* review_vote_states as the effect fills it.  A review without an entry reads
\* as undefined, whose voted_helpful and isVoting are falsy like these.
initialVoteStates ==
    [ r \in DetailReviews |-> [voted_helpful |-> FALSE, isVoting |-> FALSE] ]

InitVotes ==
    /\ review_votes = [ helpful_votes |-> SeedHelpfulVotes, voters |-> {} ]
    /\ pd = [ product_details |-> None, review_vote_states |-> initialVoteStates,
              effectDue |-> FALSE, net |-> <<>>, sent |-> 0, succeeded |-> {},
              step |-> "none" ]

\* The product details query is answered: GET /products/{product_id} with the
\* reviews' helpful_votes.  The effect on [product_id, product_details?.reviews]
\* is due whenever the reviews array is a new one.
productDetailsFetched ==
    /\ pd.product_details = None
    /\ pd' = [ pd EXCEPT !.product_details = Some(review_votes.helpful_votes),
                         !.effectDue = TRUE,
                         !.step = "productDetailsFetched" ]
    /\ UNCHANGED <<review_votes, authVars, voteOthers>>

\* The effect: every review's state is set to not voted, not voting.
voteStatesEffect ==
    /\ pd.effectDue
    /\ pd' = [ pd EXCEPT !.review_vote_states = initialVoteStates,
                         !.effectDue = FALSE,
                         !.step = "voteStatesEffect" ]
    /\ UNCHANGED <<review_votes, authVars, voteOthers>>

\* handleReviewVoteClick(reviewId), on a review the view shows.
handleReviewVoteClick(reviewId) ==
    /\ pd.product_details # None
    /\ ~pd.effectDue
    /\ IF ~auth.is_authenticated \/ auth.access_token = None
       THEN /\ notifications' =
                  show_notification("Please log in to vote on reviews.", "warning")
            /\ pd' = [pd EXCEPT !.step = "handleReviewVoteClick"]
       ELSE /\ UNCHANGED notifications
            /\ IF pd.review_vote_states[reviewId].voted_helpful
                  \/ pd.review_vote_states[reviewId].isVoting
               THEN pd' = [pd EXCEPT !.step = "handleReviewVoteClick"]
               ELSE /\ pd.sent < MaxVotes
                    /\ pd' = [ pd EXCEPT
                                 !.review_vote_states[reviewId].isVoting = TRUE,
                                 !.net = Append(@, [ kind |-> "request",
                                                     reviewId |-> reviewId,
                                                     token |-> Val(auth.access_token) ]),
                                 !.sent = @ + 1,
                                 !.step = "handleReviewVoteClick" ]
    /\ UNCHANGED <<review_votes, users, auth, appInit, loginNet, regErrors, regNet,
                   voteOthers>>

\* POST /reviews/{review_id}/vote: 200 with the updated count, or 409 when the
\* user has already voted.
vote_on_review(i) ==
    /\ i \in 1..Len(pd.net)
    /\ pd.net[i].kind = "request"
    /\ LET req == pd.net[i]
           vote == <<UserOfToken(req.token), req.reviewId>>
       IN IF vote \in review_votes.voters
          THEN /\ pd' = [ pd EXCEPT
                            !.net[i] = [ kind |-> "response", reviewId |-> req.reviewId,
                                         status |-> 409, helpful_votes |-> 0 ],
                            !.step = "vote_on_review" ]
               /\ UNCHANGED review_votes
          ELSE /\ review_votes' =
                     [ review_votes EXCEPT !.helpful_votes[req.reviewId] = @ + 1,
                                           !.voters = @ \cup {vote} ]
               /\ pd' = [ pd EXCEPT
                            !.net[i] =
                                [ kind |-> "response", reviewId |-> req.reviewId,
                                  status |-> 200,
                                  helpful_votes |->
                                      review_votes.helpful_votes[req.reviewId] + 1 ],
                            !.step = "vote_on_review" ]
    /\ UNCHANGED <<authVars, voteOthers>>

\* voteMutation.onSuccess: the review's state, then setQueryData on the cached
\* product details, which makes a new reviews array when the count changed.
voteOnSuccess(i) ==
    /\ i \in 1..Len(pd.net)
    /\ pd.net[i].kind = "response"
    /\ pd.net[i].status = 200
    /\ LET data == pd.net[i]
           oldData == Val(pd.product_details)
           updated == [oldData EXCEPT ![data.reviewId] = data.helpful_votes]
       IN pd' = [ pd EXCEPT
                    !.review_vote_states[data.reviewId] =
                        [voted_helpful |-> TRUE, isVoting |-> FALSE],
                    !.product_details = Some(updated),
                    !.effectDue = @ \/ updated # oldData,
                    !.net = RemoveAt(@, i),
                    !.succeeded = @ \cup {data.reviewId},
                    !.step = "voteOnSuccess" ]
    /\ UNCHANGED <<review_votes, authVars, voteOthers>>

\* voteMutation.onError: the notification, and isVoting is reset.
voteOnError(i) ==
    /\ i \in 1..Len(pd.net)
    /\ pd.net[i].kind = "response"
    /\ pd.net[i].status # 200
    /\ notifications' = show_notification("Failed to cast vote", "error")
    /\ pd' = [ pd EXCEPT
                 !.review_vote_states[pd.net[i].reviewId].isVoting = FALSE,
                 !.net = RemoveAt(@, i),
                 !.step = "voteOnError" ]
    /\ UNCHANGED <<review_votes, users, auth, appInit, loginNet, regErrors, regNet,
                   voteOthers>>

NextVotes ==
    \/ initialize_app_begin
    \/ initialize_app_end(TRUE, TRUE)
    \/ loginHandleSubmit(emily_email, password_emily)
    \/ login_user
    \/ loginOnSuccess
    \/ productDetailsFetched
    \/ voteStatesEffect
    \/ \E reviewId \in DetailReviews : handleReviewVoteClick(reviewId)
    \/ \E i \in 1..MaxVotes : vote_on_review(i)
    \/ \E i \in 1..MaxVotes : voteOnSuccess(i)
    \/ \E i \in 1..MaxVotes : voteOnError(i)

\* ========================================================= UV_SearchResults
\* The view keeps the search term, the filters, the sorting and the page in
\* local state and in the URL's query string, and two effects copy one to
\* the other.  A commit runs the effects whose dependencies changed, the
\* state-to-URL effect first; the state updates and the navigation they
\* make are rendered next.  BrowserRouter renders a navigation with the state
\* updates of the same commit, or, where it hands the location to
\* React.startTransition, after them.
validSortOrder(so) == IF so \in {Some("asc"), Some("desc")} THEN so ELSE None

\* The useState initialisers, from the URL of the first render.
InitialSearchState(u) ==
    [ searchTerm |-> IF Truthy(u.q) THEN u.q ELSE None,
      selectedCategory |-> IF Truthy(u.category_id) THEN u.category_id ELSE None,
      selectedBrand |-> IF Truthy(u.brand_name) THEN u.brand_name ELSE None,
      selectedSustainabilityScore |-> parseFloatParam(u.min_sustainability_score),
      selectedEthicalScore |-> parseFloatParam(u.min_ethical_score),
      selectedDurabilityScore |-> parseFloatParam(u.min_durability_score),
      selectedAttributes |->
          IF u.attribute_ids = None THEN <<>> ELSE SplitIds(Val(u.attribute_ids)),
      sortBy |-> IF Truthy(u.sort_by) THEN u.sort_by ELSE None,
      sortOrder |-> validSortOrder(u.sort_order),
      currentPage |-> IF parseInt(OrElse(u.page, <<"1">>)) # None
                      THEN Val(parseInt(OrElse(u.page, <<"1">>))) ELSE 1 ]

\* updateParam(key, value): the value set, or the key deleted for null,
\* undefined and the empty string.
updateParam(value) == IF Truthy(value) THEN value ELSE None

updateScoreParam(score) == IF score # None THEN Some(NumberToString(Val(score))) ELSE None

\* The query string the state-to-URL effect passes to setSearchParams: the
\* location's parameters with every key of the state set or deleted.
stateToUrlParams(u, st) ==
    [ u EXCEPT
        !.q = updateParam(st.searchTerm),
        !.category_id = updateParam(st.selectedCategory),
        !.brand_name = updateParam(st.selectedBrand),
        !.min_sustainability_score = updateScoreParam(st.selectedSustainabilityScore),
        !.min_ethical_score = updateScoreParam(st.selectedEthicalScore),
        !.min_durability_score = updateScoreParam(st.selectedDurabilityScore),
        !.attribute_ids = IF st.selectedAttributes # <<>>
                          THEN Some(JoinIds(st.selectedAttributes)) ELSE None,
        !.sort_by = updateParam(st.sortBy),
        !.sort_order = updateParam(st.sortOrder),
        !.page = IF st.currentPage > 1 THEN Some(IntToString(st.currentPage)) ELSE None ]

\* One score of the URL-to-state effect: the parameter's number when it is
\* one, null when the parameter is absent, the state's value otherwise.
scoreFromUrl(param, score) ==
    IF parseFloatParam(param) # None THEN parseFloatParam(param)
    ELSE IF param = None THEN None
    ELSE score

\* The local state the URL-to-state effect leaves.
urlToSearchState(u, st) ==
    [ searchTerm |-> u.q,
      selectedCategory |-> u.category_id,
      selectedBrand |-> u.brand_name,
      selectedSustainabilityScore |->
          scoreFromUrl(u.min_sustainability_score, st.selectedSustainabilityScore),
      selectedEthicalScore |->
          scoreFromUrl(u.min_ethical_score, st.selectedEthicalScore),
      selectedDurabilityScore |->
          scoreFromUrl(u.min_durability_score, st.selectedDurabilityScore),
      selectedAttributes |->
          IF u.attribute_ids = None THEN <<>> ELSE SplitIds(Val(u.attribute_ids)),
      sortBy |-> u.sort_by,
      sortOrder |-> validSortOrder(u.sort_order),
      currentPage |-> IF parseInt(OrElse(u.page, <<"1">>)) # None
                      THEN Val(parseInt(OrElse(u.page, <<"1">>)))
                      ELSE st.currentPage ]

InitSearch ==
    sr = [ status |-> "unmounted", transition |-> FALSE, local |-> InitialSearchState(NoUrl),
           url |-> NoUrl, pending |-> None, isInitialMount |-> TRUE,
           stateEffectDue |-> FALSE, urlEffectDue |-> FALSE,
           step |-> "none", cause |-> "none", target |-> NoUrl ]

\* No effect is due and no navigation waits to be rendered.
SearchSettled ==
    /\ sr.status = "mounted"
    /\ ~sr.stateEffectDue
    /\ ~sr.urlEffectDue
    /\ sr.pending = None

\* The URLs the view is opened at and navigated to.
SearchUrls ==
    { [ NoUrl EXCEPT !.q = q, !.page = p ] :
        q \in {Some("eco"), Some("bottle")}, p \in {None, Some(<<"2">>)} }

\* The view is mounted at URL u, in a build whose router renders locations
\* in a transition or does not.
openSearchResults(u, transition) ==
    /\ sr.status = "unmounted"
    /\ sr' = [ sr EXCEPT !.status = "mounted", !.transition = transition,
                         !.local = InitialSearchState(u), !.url = u,
                         !.isInitialMount = TRUE,
                         !.stateEffectDue = TRUE, !.urlEffectDue = TRUE,
                         !.step = "openSearchResults", !.cause = "none", !.target = u ]
    /\ UNCHANGED <<authVars, searchOthers>>

\* The effects of one commit, and the render of what they set.
searchEffects ==
    /\ sr.status = "mounted"
    /\ sr.stateEffectDue \/ sr.urlEffectDue
    /\ LET nav == IF sr.stateEffectDue /\ ~sr.isInitialMount
                  THEN Some(stateToUrlParams(sr.url, sr.local)) ELSE sr.pending
           st == IF sr.urlEffectDue THEN urlToSearchState(sr.url, sr.local) ELSE sr.local
           rendered == IF nav # None /\ ~sr.transition THEN Val(nav) ELSE sr.url
       IN sr' = [ sr EXCEPT
                    !.local = st,
                    !.url = rendered,
                    !.pending = IF sr.transition THEN nav ELSE None,
                    !.isInitialMount = @ /\ ~sr.stateEffectDue,
                    !.stateEffectDue = (st # sr.local \/ rendered # sr.url),
                    !.urlEffectDue = (rendered # sr.url),
                    !.step = "searchEffects" ]
    /\ UNCHANGED <<authVars, searchOthers>>

\* The router's transition is rendered: the location of the last navigation.
routerTransition ==
    /\ sr.status = "mounted"
    /\ ~sr.stateEffectDue
    /\ ~sr.urlEffectDue
    /\ sr.pending # None
    /\ sr' = [ sr EXCEPT !.url = Val(sr.pending), !.pending = None,
                         !.stateEffectDue = (Val(sr.pending) # sr.url),
                         !.urlEffectDue = (Val(sr.pending) # sr.url),
                         !.step = "routerTransition" ]
    /\ UNCHANGED <<authVars, searchOthers>>

\* A handler's state updates are rendered.
AfterSearchHandler(st, step) ==
    /\ SearchSettled
    /\ sr' = [ sr EXCEPT !.local = st, !.stateEffectDue = (st # sr.local),
                         !.step = step, !.cause = "handler" ]
    /\ UNCHANGED <<authVars, searchOthers>>

\* handleFilterChange(filterName, value) of UV_SearchResults.
searchHandleFilterChange(filterName, value) ==
    LET s1 == [sr.local EXCEPT !.currentPage = 1]
        s2 == IF filterName = "category" THEN [s1 EXCEPT !.selectedCategory = value]
              ELSE IF filterName = "brand" THEN [s1 EXCEPT !.selectedBrand = value]
              ELSE IF filterName = "sustainability_score"
              THEN [s1 EXCEPT !.selectedSustainabilityScore = value]
              ELSE IF filterName = "ethical_score"
              THEN [s1 EXCEPT !.selectedEthicalScore = value]
              ELSE IF filterName = "durability_score"
              THEN [s1 EXCEPT !.selectedDurabilityScore = value]
              ELSE IF filterName = "attributes"
              THEN [ s1 EXCEPT !.selectedAttributes =
                       IF \E i \in 1..Len(@) : @[i] = value
                       THEN SelectSeq(@, LAMBDA id : id # value)
                       ELSE Append(@, value) ]
              ELSE s1
    IN /\ sr.status = "mounted"
       /\ AfterSearchHandler(s2, "handleFilterChange")

\* The values the filter controls pass.
SearchFilterChanges ==
    { <<"category", Some("cat_001")>>, <<"brand", Some("")>>,
      <<"sustainability_score", Some(450)>>, <<"attributes", "attr_001">> }

\* handleSortChange(newSortBy, newSortOrder), as the select calls it:
\* handleSortChange(value || null, sortBy === value ? sortOrder : 'asc').
searchHandleSortChange(value) ==
    /\ sr.status = "mounted"
    /\ AfterSearchHandler(
        [ sr.local EXCEPT
            !.sortBy = IF Truthy(value) THEN value ELSE None,
            !.sortOrder = IF sr.local.sortBy = value THEN @ ELSE Some("asc"),
            !.currentPage = 1 ],
        "handleSortChange")

\* The sort order toggle button, shown when sortBy is set:
\* setSortOrder(sortOrder === 'asc' ? 'desc' : 'asc').
toggleSortOrder ==
    /\ Truthy(sr.local.sortBy)
    /\ AfterSearchHandler(
           [ sr.local EXCEPT
               !.sortOrder = IF @ = Some("asc") THEN Some("desc") ELSE Some("asc") ],
           "toggleSortOrder")

\* handlePageChange(page) from Previous and Next, which are disabled on the
\* first and on the last page.
searchHandlePageChange(page) ==
    /\ \/ page = sr.local.currentPage - 1 /\ sr.local.currentPage # 1
       \/ page = sr.local.currentPage + 1 /\ sr.local.currentPage # SearchTotalPages
    /\ AfterSearchHandler([sr.local EXCEPT !.currentPage = page], "handlePageChange")

\* handleSearchInputChange: a text typed in the search box.
handleSearchInputChange(text) ==
    /\ sr.status = "mounted"
    /\ AfterSearchHandler([sr.local EXCEPT !.searchTerm = Some(text)],
                          "handleSearchInputChange")

\* handleSearchSubmit: the filters, the sorting and the page are reset.
handleSearchSubmit ==
    /\ sr.status = "mounted"
    /\ AfterSearchHandler(
           [InitialSearchState(NoUrl) EXCEPT !.searchTerm = sr.local.searchTerm],
           "handleSearchSubmit")

\* Clear All Filters: the state reset and setSearchParams({}).
clearAllSearchFilters ==
    /\ SearchSettled
    /\ LET st == InitialSearchState(NoUrl)
           rendered == IF sr.transition THEN sr.url ELSE NoUrl
       IN sr' = [ sr EXCEPT
                    !.local = st,
                    !.url = rendered,
                    !.pending = IF sr.transition THEN Some(NoUrl) ELSE None,
                    !.stateEffectDue = (st # sr.local \/ rendered # sr.url),
                    !.urlEffectDue = (rendered # sr.url),
                    !.step = "clearAllFilters", !.cause = "handler" ]
    /\ UNCHANGED <<authVars, searchOthers>>

\* The URL's query string is changed from outside the view: a link, the
\* search form of the top navigation, the history.
searchNavigate(u) ==
    /\ SearchSettled
    /\ u # sr.url
    /\ sr' = [ sr EXCEPT !.url = u, !.stateEffectDue = TRUE, !.urlEffectDue = TRUE,
                         !.step = "navigate", !.cause = "url", !.target = u ]
    /\ UNCHANGED <<authVars, searchOthers>>

NextSearch ==
    \/ \E u \in SearchUrls, transition \in BOOLEAN : openSearchResults(u, transition)
    \/ searchEffects
    \/ routerTransition
    \/ \E change \in SearchFilterChanges : searchHandleFilterChange(change[1], change[2])
    \/ \E value \in {None, Some("name")} : searchHandleSortChange(value)
    \/ toggleSortOrder
    \/ \E page \in 1..SearchTotalPages : searchHandlePageChange(page)
    \/ handleSearchInputChange("eco")
    \/ handleSearchSubmit
    \/ clearAllSearchFilters
    \/ \E u \in SearchUrls : searchNavigate(u)

\* ============================================================ the database
\* Every table by its key and foreign-key columns: the rows of the seed.
SeedDb ==
    [ users |-> { SeedUsers[i].user_id : i \in 1..Len(SeedUsers) },
      categories |-> {"cat_001", "cat_002", "cat_003", "cat_004", "cat_005", "cat_006"},
      products |-> { [ product_id |-> SeedProducts[i].product_id,
                       category_id |-> SeedProducts[i].category_id ] :
                     i \in 1..Len(SeedProducts) },
      product_attributes |->
          { "attr_001", "attr_002", "attr_003", "attr_004", "attr_005",
            "attr_006", "attr_007", "attr_008", "attr_009", "attr_010" },
      product_to_attribute |->
          { [product_id |-> l[1], attribute_id |-> l[2]] :
            l \in { <<"prod_001", "attr_001">>, <<"prod_001", "attr_008">>,
                    <<"prod_002", "attr_006">>, <<"prod_003", "attr_007">>,
                    <<"prod_003", "attr_002">>, <<"prod_004", "attr_008">>,
                    <<"prod_004", "attr_004">>, <<"prod_005", "attr_003">>,
                    <<"prod_005", "attr_009">>, <<"prod_006", "attr_006">>,
                    <<"prod_007", "attr_002">>, <<"prod_007", "attr_007">>,
                    <<"prod_008", "attr_001">>, <<"prod_008", "attr_008">>,
                    <<"prod_009", "attr_001">>, <<"prod_010", "attr_006">>,
                    <<"prod_010", "attr_010">> } },
      reviews |->
          { [review_id |-> r[1], product_id |-> r[2], user_id |-> r[3]] :
            r \in { <<"rev_001", "prod_001", "user_abc">>,
                    <<"rev_002", "prod_002", "user_def">>,
                    <<"rev_003", "prod_003", "user_ghi">>,
                    <<"rev_004", "prod_001", "user_def">>,
                    <<"rev_005", "prod_004", "user_abc">>,
                    <<"rev_006", "prod_008", "user_ghi">>,
                    <<"rev_007", "prod_003", "user_def">>,
                    <<"rev_008", "prod_002", "user_ghi">>,
                    <<"rev_009", "prod_005", "user_jkl">>,
                    <<"rev_010", "prod_010", "user_jkl">> } },
      review_photos |->
          { [photo_id |-> f[1], review_id |-> f[2]] :
            f \in { <<"photo_001", "rev_001">>, <<"photo_002", "rev_003">>,
                    <<"photo_003", "rev_005">>, <<"photo_004", "rev_006">>,
                    <<"photo_005", "rev_010">> } },
      user_bookmarks |->
          { [user_id |-> SeedBookmarks[i].user_id,
             product_id |-> SeedBookmarks[i].product_id] :
            i \in 1..Len(SeedBookmarks) } ]

\* PRIMARY KEY of every table, FOREIGN KEY ... REFERENCES of the child tables.
ProductIdsOf(d) == { p.product_id : p \in d.products }
ReviewIdsOf(d) == { r.review_id : r \in d.reviews }

InsertUserOk(d, id) == id \notin d.users
InsertCategoryOk(d, id) == id \notin d.categories
InsertProductOk(d, row) ==
    /\ row.product_id \notin ProductIdsOf(d)
    /\ row.category_id \in d.categories
InsertAttributeOk(d, id) == id \notin d.product_attributes
InsertProductToAttributeOk(d, row) ==
    /\ row \notin d.product_to_attribute
    /\ row.product_id \in ProductIdsOf(d)
    /\ row.attribute_id \in d.product_attributes
InsertReviewOk(d, row) ==
    /\ row.review_id \notin ReviewIdsOf(d)
    /\ row.product_id \in ProductIdsOf(d)
    /\ row.user_id \in d.users
InsertReviewPhotoOk(d, row) ==
    /\ row.photo_id \notin { f.photo_id : f \in d.review_photos }
    /\ row.review_id \in ReviewIdsOf(d)
InsertUserBookmarkOk(d, row) ==
    /\ row \notin d.user_bookmarks
    /\ row.user_id \in d.users
    /\ row.product_id \in ProductIdsOf(d)

\* ON DELETE CASCADE.  The reviews go with their photos; the products go with
\* their links, their bookmarks and their reviews.  The first two versions
\* leave the rows of one child table behind.
DeleteReviewsKeepingPhotos(d, ids) ==
    [ d EXCEPT !.reviews = { r \in d.reviews : r.review_id \notin ids } ]

DeleteReviews(d, ids) ==
    [ d EXCEPT !.reviews = { r \in d.reviews : r.review_id \notin ids },
               !.review_photos = { f \in d.review_photos : f.review_id \notin ids } ]

DeleteProductsRows(d, ids) ==
    LET e == DeleteReviews(d, { r.review_id : r \in { x \in d.reviews : x.product_id \in ids } })
    IN [ e EXCEPT !.products = { p \in e.products : p.product_id \notin ids },
                  !.product_to_attribute =
                      { l \in e.product_to_attribute : l.product_id \notin ids },
                  !.user_bookmarks =
                      { b \in e.user_bookmarks : b.product_id \notin ids } ]

DeleteUserRows(d, id) ==
    LET e == DeleteReviews(d, { r.review_id : r \in { x \in d.reviews : x.user_id = id } })
    IN [ e EXCEPT !.users = e.users \ {id},
                  !.user_bookmarks = { b \in e.user_bookmarks : b.user_id # id } ]

DeleteCategoryRows(d, id) ==
    LET e == DeleteProductsRows(d, { p.product_id :
                                       p \in { x \in d.products : x.category_id = id } })
    IN [ e EXCEPT !.categories = e.categories \ {id} ]

DeleteAttributeRows(d, id) ==
    [ d EXCEPT !.product_attributes = d.product_attributes \ {id},
               !.product_to_attribute =
                   { l \in d.product_to_attribute : l.attribute_id # id } ]

\* INSERT INTO each table: the row is stored when the constraints allow it,
\* and the statement fails otherwise.
InsertUser(id) ==
    /\ db' = IF InsertUserOk(db, id) THEN [db EXCEPT !.users = @ \cup {id}] ELSE db
    /\ UNCHANGED dbOthers

InsertCategory(id) ==
    /\ db' = IF InsertCategoryOk(db, id) THEN [db EXCEPT !.categories = @ \cup {id}] ELSE db
    /\ UNCHANGED dbOthers

InsertProduct(row) ==
    /\ db' = IF InsertProductOk(db, row) THEN [db EXCEPT !.products = @ \cup {row}] ELSE db
    /\ UNCHANGED dbOthers

InsertAttribute(id) ==
    /\ db' = IF InsertAttributeOk(db, id)
             THEN [db EXCEPT !.product_attributes = @ \cup {id}] ELSE db
    /\ UNCHANGED dbOthers

InsertProductToAttribute(row) ==
    /\ db' = IF InsertProductToAttributeOk(db, row)
             THEN [db EXCEPT !.product_to_attribute = @ \cup {row}] ELSE db
    /\ UNCHANGED dbOthers

InsertReview(row) ==
    /\ db' = IF InsertReviewOk(db, row) THEN [db EXCEPT !.reviews = @ \cup {row}] ELSE db
    /\ UNCHANGED dbOthers

InsertReviewPhoto(row) ==
    /\ db' = IF InsertReviewPhotoOk(db, row)
             THEN [db EXCEPT !.review_photos = @ \cup {row}] ELSE db
    /\ UNCHANGED dbOthers

InsertUserBookmark(row) ==
    /\ db' = IF InsertUserBookmarkOk(db, row)
             THEN [db EXCEPT !.user_bookmarks = @ \cup {row}] ELSE db
    /\ UNCHANGED dbOthers

\* DELETE FROM a parent table WHERE its key is the id.
DeleteUser(id) ==
    /\ db' = DeleteUserRows(db, id)
    /\ UNCHANGED dbOthers

DeleteCategory(id) ==
    /\ db' = DeleteCategoryRows(db, id)
    /\ UNCHANGED dbOthers

DeleteProduct(id) ==
    /\ db' = DeleteProductsRows(db, {id})
    /\ UNCHANGED dbOthers

DeleteAttribute(id) ==
    /\ db' = DeleteAttributeRows(db, id)
    /\ UNCHANGED dbOthers

DeleteReview(id) ==
    /\ db' = DeleteReviews(db, {id})
    /\ UNCHANGED dbOthers

\* The rows the statements are given: a new row of every table, with parents
\* of the seed, new parents and parents that never existed.
NewProductRows ==
    { [product_id |-> "prod_011", category_id |-> c] : c \in {"cat_003", "cat_007", "cat_999"} }
NewLinkRows ==
    { [product_id |-> p, attribute_id |-> "attr_001"] : p \in {"prod_011", "prod_404"} }
NewReviewRows ==
    { [review_id |-> "rev_011", product_id |-> r[1], user_id |-> r[2]] :
      r \in { <<"prod_011", "user_mno">>, <<"prod_001", "user_abc">>,
              <<"prod_404", "user_abc">> } }
NewPhotoRows ==
    { [photo_id |-> "photo_006", review_id |-> r] : r \in {"rev_001", "rev_011"} }
NewBookmarkRows ==
    { [user_id |-> u, product_id |-> "prod_011"] : u \in {"user_abc", "user_mno"} }

NextDb ==
    \/ InsertUser("user_mno")
    \/ InsertCategory("cat_007")
    \/ \E row \in NewProductRows : InsertProduct(row)
    \/ InsertAttribute("attr_011")
    \/ \E row \in NewLinkRows : InsertProductToAttribute(row)
    \/ \E row \in NewReviewRows : InsertReview(row)
    \/ \E row \in NewPhotoRows : InsertReviewPhoto(row)
    \/ \E row \in NewBookmarkRows : InsertUserBookmark(row)
    \/ \E id \in {"user_abc", "user_mno"} : DeleteUser(id)
    \/ \E id \in {"cat_003", "cat_007"} : DeleteCategory(id)
    \/ \E id \in {"prod_001", "prod_011"} : DeleteProduct(id)
    \/ DeleteAttribute("attr_001")
    \/ \E id \in {"rev_001", "rev_011"} : DeleteReview(id)

\* ================================== UV_ReviewSubmission: product info, photos
\* The view on the page.  It is opened by a user who is logged in; its
\* product info query starts with it, and the form is rendered once that
\* query has succeeded.  The model follows one visit: the view leaves the
\* page when a handler navigates to /login, and the callbacks of the requests
\* still in flight run all the same, their state updates on the unmounted
\* view doing nothing.
ReviewRoute == "/products/prod_001/reviews"

InitPhotos ==
    rv = [ status |-> "unmounted", hasIsPending |-> FALSE, info |-> "idle",
           infoNet |-> <<>>, product_name |-> None, net |-> <<>>, created |-> 0,
           selected |-> 0, files |-> <<>>, uploaded_photos_state |-> <<>>,
           handled |-> None ]

\* The files of a selection: their type as the browser reports it and their
\* size in bytes.
allowedTypes == {"image/jpeg", "image/png", "image/gif"}
maxSize == 5 * 1024 * 1024

PhotoFiles ==
    { [name |-> "a.jpg", type |-> "image/jpeg", size |-> 1024],
      [name |-> "b.png", type |-> "image/png", size |-> maxSize],
      [name |-> "c.gif", type |-> "image/gif", size |-> maxSize + 1],
      [name |-> "d.pdf", type |-> "application/pdf", size |-> 1024] }

\* The uploads of one visit.
MaxUploads == MaxFiles * MaxSelections

\* e.target.files: up to MaxFiles files, in the order chosen.
Selections == UNION { [1..n -> PhotoFiles] : n \in 0..MaxFiles }

\* A validation of the selection that looks at the types only.
hasInvalidFileType(files) ==
    \E k \in 1..Len(files) : files[k].type \notin allowedTypes

\* hasInvalidFile after the first forEach: a type that is not allowed, or
\* else a size over maxSize.
hasInvalidFile(files) ==
    \E k \in 1..Len(files) :
        IF files[k].type \notin allowedTypes THEN TRUE ELSE files[k].size > maxSize

\* isLoading and isError of the product info query decide what is rendered:
\* the form only when the query has succeeded.
FormShown == rv.status = "mounted" /\ rv.info = "success"

\* photoUploadMutation.isPending: the state of the last mutation the
\* observer created, in a build of the query library whose result has the
\* field; undefined in one that has isLoading instead.
photoUploadIsPending ==
    /\ rv.hasIsPending
    /\ \E i \in 1..Len(rv.net) : rv.net[i].id = rv.created

\* The route renders the view.  The effect at mount leaves for /login when
\* is_authenticated is false, so the visit goes on for a user logged in; the
\* query is enabled and fetches.
openReviewSubmission(hasIsPending) ==
    /\ rv.status = "unmounted"
    /\ auth.is_authenticated
    /\ rv' = [rv EXCEPT !.status = "mounted", !.hasIsPending = hasIsPending,
                        !.info = "loading", !.infoNet = << [kind |-> "request"] >>]
    /\ rs' = InitialReviewState
    /\ sess' = [sess EXCEPT !.route = ReviewRoute]
    /\ UNCHANGED <<auth, notifications, photoOthers>>

\* server: GET /products/{product_id}, which asks for no authorization and
\* answers 200 or 404.
get_product_details(found) ==
    /\ rv.infoNet # <<>>
    /\ rv.infoNet[1].kind = "request"
    /\ rv' = [rv EXCEPT !.infoNet =
                 << IF found
                    THEN [kind |-> "response", status |-> 200, error |-> None]
                    ELSE [kind |-> "response", status |-> 404,
                          error |-> Some("Product not found")] >>]
    /\ UNCHANGED <<rs, auth, notifications, sess, photoOthers>>

\* The product info query settles, and its observer calls onSuccess or
\* onError where the installed query library has these callbacks on queries
\* (called) and the view is on the page.  onError: with a body's error, a 401
\* or 403 clears the session and leaves; otherwise the feedback.
productInfoSettled(called) ==
    /\ rv.infoNet # <<>>
    /\ rv.infoNet[1].kind = "response"
    /\ LET res == rv.infoNet[1]
           run == called /\ rv.status = "mounted"
           authFailed == run /\ res.error # None /\ IsAuthFailure(res.status)
       IN
       /\ rv' = [ (IF authFailed THEN LeaveReviewView(rv) ELSE rv) EXCEPT
                    !.infoNet = <<>>,
                    !.info = IF res.status = 200 THEN "success" ELSE "error",
                    !.product_name =
                        IF run /\ res.status = 200 THEN Some("prod_001")
                        ELSE IF run /\ res.status = 404 THEN None ELSE @ ]
       /\ rs' = IF run /\ res.status # 200 /\ ~authFailed
                THEN [rs EXCEPT !.submission_feedback = "error"] ELSE rs
       /\ auth' = IF authFailed THEN clear_auth_state(auth) ELSE auth
       /\ sess' = IF authFailed THEN [sess EXCEPT !.route = "/login"] ELSE sess
    /\ UNCHANGED <<notifications, photoOthers>>

\* handleFileSelect on a selection: nothing for an empty one; the feedback
\* and nothing else when a file is invalid; otherwise
\* photoUploadMutation.mutate(file) for each file, each call creating a
\* mutation whose mutationFn posts the file.  The input is disabled while
\* photoUploadMutation.isPending.
handleFileSelect(files) ==
    /\ FormShown
    /\ ~photoUploadIsPending
    /\ rv.selected < MaxSelections
    /\ IF Len(files) = 0
       THEN /\ rv' = [rv EXCEPT !.selected = @ + 1, !.files = files]
            /\ UNCHANGED rs
       ELSE IF hasInvalidFile(files)
       THEN /\ rv' = [rv EXCEPT !.selected = @ + 1, !.files = files]
            /\ rs' = [rs EXCEPT !.submission_feedback = "error"]
       ELSE /\ rv' = [rv EXCEPT
                        !.selected = @ + 1, !.files = files,
                        !.created = @ + Len(files),
                        !.net = @ \o [ k \in 1..Len(files) |->
                                         [ kind |-> "request", id |-> rv.created + k,
                                           file |-> files[k], status |-> 0,
                                           error |-> None ] ] ]
            /\ UNCHANGED rs
    /\ UNCHANGED <<auth, notifications, sess, photoOthers>>

\* server: POST /upload/photo.  It answers 201 with the photo's URL, 400 for
\* a file it does not take, 401 or 403 for a bearer token it does not accept,
\* each error with a body {error}.
UploadFaults == {"none", "400", "401", "403"}

UploadResult(fault) ==
    IF fault = "none" THEN [status |-> 201, error |-> None]
    ELSE IF fault = "400" THEN [status |-> 400, error |-> Some("File type not supported")]
    ELSE IF fault = "401" THEN [status |-> 401, error |-> Some("Unauthorized")]
    ELSE [status |-> 403, error |-> Some("Forbidden")]

upload_review_photo(i, fault) ==
    /\ i \in 1..Len(rv.net)
    /\ rv.net[i].kind = "request"
    /\ rv' = [rv EXCEPT !.net[i] = [ @ EXCEPT !.kind = "response",
                                              !.status = UploadResult(fault).status,
                                              !.error = UploadResult(fault).error ]]
    /\ UNCHANGED <<rs, auth, notifications, sess, photoOthers>>

\* photoUploadMutation.onSuccess: the file and its URL are added to
\* uploaded_photos_state, the photos error is cleared, and the notification.
photoUploadOnSuccess(i) ==
    /\ i \in 1..Len(rv.net)
    /\ rv.net[i].kind = "response"
    /\ rv.net[i].status = 201
    /\ rv' = [rv EXCEPT !.net = RemoveAt(@, i),
                        !.uploaded_photos_state =
                            IF rv.status = "mounted" THEN Append(@, rv.net[i].file) ELSE @]
    /\ rs' = IF rv.status = "mounted"
             THEN [rs EXCEPT !.validation_errors = @ \ {"photos"}] ELSE rs
    /\ notifications' = show_notification("Photo uploaded successfully", "success")
    /\ UNCHANGED <<auth, sess, photoOthers>>

\* photoUploadMutation.onError: with a body's error, a 401 or 403 clears the
\* session and leaves for /login; otherwise the feedback.
photoUploadOnError(i) ==
    /\ i \in 1..Len(rv.net)
    /\ rv.net[i].kind = "response"
    /\ rv.net[i].status # 201
    /\ LET res == rv.net[i]
           authFailed == res.error # None /\ IsAuthFailure(res.status)
       IN
       /\ rv' = [ (IF authFailed THEN LeaveReviewView(rv) ELSE rv) EXCEPT
                    !.net = RemoveAt(@, i),
                    !.handled = IF IsAuthFailure(res.status) THEN Some(res.status) ELSE @ ]
       /\ rs' = IF ~authFailed /\ rv.status = "mounted"
                THEN [rs EXCEPT !.submission_feedback = "error"] ELSE rs
       /\ auth' = IF authFailed THEN clear_auth_state(auth) ELSE auth
       /\ sess' = IF authFailed THEN [sess EXCEPT !.route = "/login"] ELSE sess
    /\ UNCHANGED <<notifications, photoOthers>>

\* The form as rendered: the user fills in the fields that are empty.
FilledText == <<" ", "x", " ">>

reviewFormChange ==
    /\ FormShown
    /\ \/ rs.review_title = <<>> /\ handleTitleChange(FilledText)
       \/ rs.review_body = <<>> /\ handleBodyChange(FilledText)
       \/ rs.overall_rating = None /\ handleOverallRatingChange(maxRating)
       \/ ~rs.confirmation_checkbox /\ toggleConfirmation

\* The form's submit button, disabled while is_submitting or
\* photoUploadMutation.isPending.
reviewFormSubmit ==
    /\ FormShown
    /\ ~photoUploadIsPending
    /\ handleSubmit

\* The user logs in before the visit.
loginBeforeVisit ==
    /\ rv.status = "unmounted"
    /\ loginHandleSubmit(emily_email, password_emily)

\* The visit with its photo input only.
NextPhotos ==
    \/ initialize_app_begin
    \/ initialize_app_end(TRUE, TRUE)
    \/ loginBeforeVisit
    \/ login_user
    \/ loginOnSuccess
    \/ \E hasIsPending \in BOOLEAN : openReviewSubmission(hasIsPending)
    \/ \E found \in BOOLEAN : get_product_details(found)
    \/ \E called \in BOOLEAN : productInfoSettled(called)
    \/ \E files \in Selections : handleFileSelect(files)
    \/ \E i \in 1..MaxUploads, fault \in UploadFaults : upload_review_photo(i, fault)
    \/ \E i \in 1..MaxUploads : photoUploadOnSuccess(i)
    \/ \E i \in 1..MaxUploads : photoUploadOnError(i)

\* The visit with the form, and one file chosen at a time.
NextReviewView ==
    \/ initialize_app_begin
    \/ initialize_app_end(TRUE, TRUE)
    \/ loginBeforeVisit
    \/ login_user
    \/ loginOnSuccess
    \/ \E hasIsPending \in BOOLEAN : openReviewSubmission(hasIsPending)
    \/ \E found \in BOOLEAN : get_product_details(found)
    \/ \E called \in BOOLEAN : productInfoSettled(called)
    \/ \E file \in PhotoFiles : handleFileSelect(<<file>>)
    \/ \E i \in 1..MaxUploads, fault \in UploadFaults : upload_review_photo(i, fault)
    \/ \E i \in 1..MaxUploads : photoUploadOnSuccess(i)
    \/ \E i \in 1..MaxUploads : photoUploadOnError(i)
    \/ reviewFormChange
    \/ reviewFormSubmit
    \/ \E i \in 1..MaxInFlight, fault \in ReviewFaults :
          submit_review_for_product(i, fault)
    \/ \E i \in 1..MaxInFlight : reviewSubmissionOnSuccess(i)
    \/ \E i \in 1..MaxInFlight : reviewSubmissionOnError(i)

\* ------------------------------------------------------------ specifications
\* Every specification starts from the same state: the seeded database, the
\* store as created, every view as mounted.  Each one runs the actions of one
\* subsystem.
Init ==
    /\ InitReview
    /\ InitAuth
    /\ InitBookmark
    /\ answers = <<>>
    /\ InitListing
    /\ InitQueries
    /\ db = SeedDb
    /\ InitSession
    /\ InitVotes
    /\ InitSearch
    /\ InitPhotos

\* The same with UV_ProductDetail on one product.
InitOne == Init /\ bv.product_id = "prod_001"

SpecReview == InitOne /\ [][NextReview]_vars
SpecAuth == InitOne /\ [][NextAuth]_vars
SpecBookmark == Init /\ [][NextBookmark]_vars
SpecCatalog == InitOne /\ [][NextCatalog]_vars
SpecListing == InitOne /\ [][NextListing]_vars
SpecDb == InitOne /\ [][NextDb]_vars
SpecQueries == InitOne /\ [][NextQueries]_vars
SpecSession == InitOne /\ [][NextSession]_vars
SpecVotes == InitOne /\ [][NextVotes]_vars
SpecSearch == InitOne /\ [][NextSearch]_vars
SpecPhotos == InitOne /\ [][NextPhotos]_vars
SpecReviewView == InitOne /\ [][NextReviewView]_vars
\* React runs the effects that are due, and the router renders its transition.
SpecSearchFair == SpecSearch /\ WF_vars(searchEffects) /\ WF_vars(routerTransition)

\* ------------------------------------------------ properties of SpecReview
OptionalRatingFields == {"sustainability_rating", "ethical_rating", "durability_rating"}

\* C1: no review is ever persisted without the confirmation: every stored
\* review was sent from a form whose confirmation checkbox was checked.
C1_NoReviewWithoutConfirmation ==
    \A i \in 1..Len(reviews) : reviews[i].ghost_confirmed

\* C8: every review submission the view has sent to the endpoint has a
\* non-empty trimmed title and body, an overall_rating in 1..5, each of the
\* three optional ratings absent or in 1..5, and the confirmation flag true.
C8_SentSubmissionValid ==
    \A i \in 1..Len(reviewNet) :
        reviewNet[i].kind = "request" =>
            LET d == reviewNet[i].formData IN
            /\ trim(d.title) # <<>>
            /\ trim(d.body) # <<>>
            /\ ParseRating(d.overall_rating) # None
            /\ Val(ParseRating(d.overall_rating)) \in 1..5
            /\ \A f \in OptionalRatingFields :
                   IF d[f] = None THEN TRUE
                   ELSE /\ ParseRating(Val(d[f])) # None
                        /\ Val(ParseRating(Val(d[f]))) \in 1..5
            /\ reviewNet[i].reviewData.confirmation_checkbox

\* A submission of the view is in flight with an optional rating set, from a
\* form whose title was typed with blanks around it.
C8_Witness ==
    \E i \in 1..Len(reviewNet) :
        /\ reviewNet[i].kind = "request"
        /\ \E f \in OptionalRatingFields : reviewNet[i].formData[f] # None
        /\ rs.review_title # reviewNet[i].formData.title

\* C9: every review a submission creates is stored with moderation_status
\* "pending", and the moderation_status of every stored review is always one
\* of pending, approved, rejected.
C9_PendingThenEnum ==
    /\ [](\A i \in 1..Len(reviews) :
             reviews[i].moderation_status \in {"pending", "approved", "rejected"})
    /\ [][\A i \in (Len(reviews) + 1)..Len(reviews') :
             reviews'[i].moderation_status = "pending"]_vars

\* The view's submission succeeded and the review it created was moderated.
C9_Witness ==
    /\ rs.submission_feedback = "success"
    /\ \E i \in 1..Len(reviews) :
           /\ reviews[i].ghost_confirmed
           /\ reviews[i].moderation_status = "rejected"

\* -------------------------------------------------- properties of SpecAuth
\* The body names the email of a user and a password that is not that user's.
WrongPassword(table, body) ==
    /\ body.password # <<>>
    /\ \E i \in 1..Len(table) :
          /\ table[i].email = body.email
          /\ table[i].password_hash # Hash(body.password)

\* C3: a login attempt with a wrong password is answered with 401 and no
\* token, and the step that handles the 401 leaves the auth slice as it was,
\* unauthenticated and without access_token, and shows an error notification
\* and nothing else.
C3_WrongPasswordRejected ==
    /\ [](\A i \in 1..Len(loginNet) :
             (loginNet[i].kind = "response" /\ WrongPassword(users, loginNet[i].body))
                 => (loginNet[i].status = 401 /\ loginNet[i].data = None))
    /\ [][(/\ loginNet # <<>>
           /\ loginNet[1].kind = "response"
           /\ loginNet[1].status = 401
           /\ loginNet' = <<>>)
          => (/\ auth' = auth
              /\ ~auth'.is_authenticated
              /\ auth'.access_token = None
              /\ notifications'.visible
              /\ notifications'.type = "error"
              /\ UNCHANGED <<users, regErrors, regNet>>)]_vars

\* A wrong password was answered and handled: the failure notification is up
\* and nobody is logged in.
C3_Witness ==
    /\ loginNet = <<>>
    /\ notifications.message = Some("Login failed. Please check your credentials.")
    /\ ~auth.is_authenticated
    /\ auth.access_token = None

\* The username or the email of the body belongs to a row of the table.
Taken(table, body) ==
    \E i \in 1..Len(table) :
        table[i].username = body.username \/ table[i].email = body.email

\* C4: a registration whose username or email belongs to an existing user is
\* answered with 409 and creates no user, and no two users ever share a
\* username or an email.
C4_DuplicateRegistrationRejected ==
    /\ [](\A i \in 1..Len(users), j \in 1..Len(users) :
             i # j => (users[i].username # users[j].username
                       /\ users[i].email # users[j].email))
    /\ [](\A i \in 1..Len(regNet) :
             (regNet[i].kind = "response" /\ regNet[i].taken)
                 => regNet[i].status = 409)
    /\ [][users' # users =>
             (/\ Len(users') = Len(users) + 1
              /\ SubSeq(users', 1, Len(users)) = users
              /\ ~Taken(users, users'[Len(users')]))]_vars

\* The view's registration was answered with 409 for a username that a user
\* registered after the seed holds.
C4_Witness ==
    /\ Len(users) > Len(SeedUsers)
    /\ regNet # <<>>
    /\ regNet[1].kind = "response"
    /\ regNet[1].status = 409
    /\ regNet[1].body.username = nova

\* ---------------------------------------------- properties of SpecBookmark
\* C5: for a user and a product, a POST of the bookmark that follows a POST
\* with no DELETE in between is answered with 409, and the table holds
\* exactly one row for the pair.
C5_SecondBookmarkRejected ==
    /\ [](\A i \in 1..Len(bmNet) :
             (/\ bmNet[i].kind = "response"
              /\ bmNet[i].method = "POST"
              /\ bmNet[i].posted_before) => bmNet[i].status = 409)
    /\ [](\A pair \in bmPosted :
             Cardinality({ i \in 1..Len(user_bookmarks) :
                             /\ user_bookmarks[i].user_id = pair[1]
                             /\ user_bookmarks[i].product_id = pair[2] }) = 1)

\* The view's POST was answered with 409: the user's other session had
\* bookmarked the product after the view read the status.
C5_Witness ==
    \E i \in 1..Len(bmNet) :
        /\ bmNet[i].kind = "response"
        /\ bmNet[i].method = "POST"
        /\ bmNet[i].status = 409
        /\ bv.query = "success"

\* ----------------------------------------------- properties of SpecCatalog
\* The row of the catalogue that has the id.
ProductRow(id) == products[CHOOSE i \in 1..Len(products) : products[i].product_id = id]

\* The answers kept for page 1 and for page 2 of one query, ten to the page.
PageOneAndTwo(a, b) ==
    /\ SameQuery(a, b)
    /\ a.asked.page = 1
    /\ b.asked.page = 2
    /\ a.asked.pageSize = 10

\* Page 2 holds what the 11th to 20th places hold, and none of its products
\* sorts before a product of page 1.
SecondSlice(a, b) ==
    /\ Len(b.data.products) = Min(10, Max(0, b.data.pagination.totalProducts - 10))
    /\ \A x \in Range(a.data.products), y \in Range(b.data.products) :
          ~Before(SortKey(ProductRow(y), b.params), SortKey(ProductRow(x), b.params),
                  b.params)

\* No two matching products have the same sort key.
NoTies(params) ==
    \A i \in Matching(products, params), j \in Matching(products, params) :
        i # j => SortKey(products[i], params) # SortKey(products[j], params)

C7_MinSustainabilityScore ==
    \A i \in 1..Len(answers) :
        answers[i].asked.min_sustainability_score # None =>
            \A id \in Range(answers[i].data.products) :
                /\ ProductRow(id).sustainability_score # None
                /\ Val(ProductRow(id).sustainability_score)
                       >= Val(answers[i].asked.min_sustainability_score)

\* A query with the minimum 4.5 has been answered with products, the
\* catalogue holding a product with a lower score and one with none.
C7_Witness ==
    \E i \in 1..Len(answers) :
        /\ answers[i].asked.min_sustainability_score = Some(450)
        /\ answers[i].data.products # <<>>
        /\ \E k \in 1..Len(products) : products[k].sustainability_score = None
        /\ \E k \in 1..Len(products) :
              /\ products[k].sustainability_score # None
              /\ Val(products[k].sustainability_score) < 450

\* ----------------------------------------------- properties of SpecListing
\* C2: once the effects and the fetch have settled after a filter change or
\* a change of the URL, every filter in the store equals its URL parameter,
\* and the filter last chosen through a handler has the chosen value.
C2_StoreAndUrlSynchronized ==
    (lv.status = "crashed" \/ ListingSettled) =>
        /\ globalFilters.search_term = url.q
        /\ globalFilters.category_id = url.category_id
        /\ globalFilters.brand_name = url.brand_name
        /\ globalFilters.min_sustainability_score
               = parseFloatParam(url.min_sustainability_score)
        /\ globalFilters.sort_by = url.sort_by
        /\ globalFilters.sort_order = url.sort_order
        /\ lv.chosen # None =>
               globalFilters[Val(lv.chosen).filter] = Val(lv.chosen).value

\* --------------------------------------------------- properties of SpecDb
\* C10: every product, review, review photo, bookmark and product-attribute
\* link refers to existing parent rows only, whatever was inserted and
\* deleted.
C10_ReferentialIntegrity ==
    /\ \A p \in db.products : p.category_id \in db.categories
    /\ \A l \in db.product_to_attribute :
          /\ l.product_id \in ProductIdsOf(db)
          /\ l.attribute_id \in db.product_attributes
    /\ \A r \in db.reviews :
          /\ r.product_id \in ProductIdsOf(db)
          /\ r.user_id \in db.users
    /\ \A f \in db.review_photos : f.review_id \in ReviewIdsOf(db)
    /\ \A b \in db.user_bookmarks :
          /\ b.user_id \in db.users
          /\ b.product_id \in ProductIdsOf(db)

\* The category of prod_001 has been deleted, and with it the product, whose
\* review rev_001 had a photo, a bookmark and two links in the seed; a new
\* user has been inserted.
C10_Witness ==
    /\ "cat_003" \notin db.categories
    /\ "prod_001" \notin ProductIdsOf(db)
    /\ "rev_001" \notin ReviewIdsOf(db)
    /\ "user_mno" \in db.users
    /\ db.reviews # {}


\* ----------------------------------------------- properties of SpecQueries
\* The last two fetches that ended were in flight at the same time, for
\* different keys, both resolved, and no fetch is in flight.
RaceOver ==
    /\ lq.inflight = {}
    /\ Len(lq.resolved) = 2
    /\ lq.resolved[2].key \in lq.resolved[1].others
    /\ lq.resolved[1].ok
    /\ lq.resolved[2].ok

\* The response was written to the store: it resolved while the view showed
\* its key, and onSuccess was called.
Written(e) == e.shown = Some(e.key) /\ e.called

C12_FailedCallNotifies ==
    rs.submission_feedback = "error" =>
        notifications.visible /\ notifications.type = "error"

\* ----------------------------------------------- properties of SpecSession
\* C13: when initialize_app completes, is_authenticated is true only if the
\* call found a token that had not expired and its GET /users/me succeeded;
\* when the token was missing or expired the call made no /users/me request
\* and user_id, username, email, access_token and token_expiration are null.
C13_InitializeAppResult ==
    sess.ended # None =>
        LET e == Val(sess.ended) IN
        /\ e.auth.is_authenticated => e.run.usable /\ e.run.meOk
        /\ ~e.run.usable =>
              /\ ~e.run.asked
              /\ e.auth.user_id = None
              /\ e.auth.username = None
              /\ e.auth.email = None
              /\ e.auth.access_token = None
              /\ e.auth.token_expiration = None

\* C14: once clear_auth_state has run the store becomes authenticated again
\* only when a login succeeds, and the failure of an initialize_app call's
\* /users/me request clears only the session whose token the request carried.
C14_NoSessionRestoredOrWiped ==
    [][ /\ (~auth.is_authenticated /\ auth'.is_authenticated)
              => /\ loginNet # <<>>
                 /\ loginNet[1].kind = "response"
                 /\ loginNet[1].status = 200
                 /\ loginNet' = <<>>
        /\ (auth.is_authenticated /\ ~auth'.is_authenticated
              /\ sess'.step = "usersMeFailed" /\ sess'.inits # sess.inits)
              => Val(sess'.run).access_token = auth.access_token
      ]_vars

\* C15: a click on Logout in the top navigation leaves the store's auth state
\* cleared (is_authenticated false; access_token, user_id and username null)
\* and the user at /login.
C15_LogoutClears ==
    [][ (sess' # sess /\ sess'.step = "handleLogoutClick") =>
            /\ ~auth'.is_authenticated
            /\ auth'.access_token = None
            /\ auth'.user_id = None
            /\ auth'.username = None
            /\ sess'.route = "/login"
      ]_vars

\* ------------------------------------------------- properties of SpecVotes
\* The vote requests and unhandled responses of a review in UV_ProductDetail.
VotesInFlight(reviewId) ==
    Cardinality({ i \in 1..Len(pd.net) : pd.net[i].reviewId = reviewId })

\* C16: for each review, once a helpful vote by the user has succeeded the
\* view sends no further vote request for that review, and at most one vote
\* request per review is in flight at any time.
C16_OneVotePerReview ==
    /\ [](\A r \in DetailReviews : VotesInFlight(r) <= 1)
    /\ [][ \A r \in pd.succeeded :
             ~(pd'.sent > pd.sent /\ pd'.net[Len(pd'.net)].reviewId = r) ]_vars

\* ------------------------------------- properties of SpecBookmark: the flag
\* The server holds a bookmark of the product shown for the user logged in.
ServerHoldsBookmark ==
    \E i \in 1..Len(user_bookmarks) :
        /\ user_bookmarks[i].user_id = Val(auth.user_id)
        /\ user_bookmarks[i].product_id = bv.product_id

\* C17: whenever the status query has been answered and no bookmark request
\* or status fetch is in flight, is_bookmarked equals whether the server holds
\* a bookmark for the user and the product; a click sends POST only for a
\* product that is not bookmarked and DELETE only for one that is; a failed
\* toggle leaves the flag unchanged.
C17_FlagEqualsServer ==
    /\ []((auth.is_authenticated /\ bv.query = "success" /\ bmNet = <<>>)
            => (bv.is_bookmarked <=> ServerHoldsBookmark))
    /\ [][ (Len(bmNet') > Len(bmNet) /\ bmNet'[Len(bmNet')].method # "GET")
             => (bmNet'[Len(bmNet')].method = "DELETE" <=> ServerHoldsBookmark) ]_vars
    /\ [][ (\E i \in 1..Len(bmNet) :
                /\ bmNet[i].kind = "response"
                /\ bmNet[i].method # "GET"
                /\ bmNet[i].status \notin {201, 204}
                /\ bmNet' = RemoveAt(bmNet, i))
             => bv'.is_bookmarked = bv.is_bookmarked ]_vars

SearchValues(st) ==
    [ st EXCEPT !.searchTerm = updateParam(@), !.selectedCategory = updateParam(@),
                !.selectedBrand = updateParam(@), !.sortBy = updateParam(@) ]

\* C19: after a handler call or a change of the URL from outside, the two
\* effects reach a fixpoint after finitely many steps, and at the fixpoint
\* the local search term, filters, sorting and page are those of the URL, and
\* those of the new URL when the change came from the URL.
C19_EffectsReachFixpoint ==
    /\ (sr.status = "mounted" /\ ~SearchSettled) ~> SearchSettled
    /\ [](SearchSettled
            => SearchValues(sr.local) = SearchValues(urlToSearchState(sr.url, sr.local)))
    /\ []((SearchSettled /\ sr.cause = "url")
            => SearchValues(sr.local)
                  = SearchValues(urlToSearchState(sr.target, sr.local)))

\* C20: every change of a filter or of the sorting, field or direction, made
\* through the controls sets currentPage to 1.
C20_ChangeResetsPage ==
    [][ (SearchSettled
         /\ sr'.step \in {"handleFilterChange", "handleSortChange", "toggleSortOrder"})
        => sr'.local.currentPage = 1 ]_vars

RuledOutFile(f) ==
    \/ f.type \notin {"image/jpeg", "image/png", "image/gif"}
    \/ f.size > 5 * 1024 * 1024

\* C22: a selection of photo files that holds a file whose type is not JPEG,
\* PNG or GIF or whose size exceeds 5 MB issues no upload request at all; any
\* other selection issues exactly one upload request per file, in the order
\* of the files; and nothing else issues an upload request.
C22_UploadsPerSelection ==
    [][ /\ rv'.selected = rv.selected + 1 =>
             LET files == rv'.files
                 issued == SubSeq(rv'.net, Len(rv.net) + 1, Len(rv'.net))
             IN
             /\ SubSeq(rv'.net, 1, Len(rv.net)) = rv.net
             /\ IF \E k \in 1..Len(files) : RuledOutFile(files[k])
                THEN issued = <<>>
                ELSE /\ Len(issued) = Len(files)
                     /\ \A k \in 1..Len(files) :
                            /\ issued[k].kind = "request"
                            /\ issued[k].file = files[k]
        /\ Len(rv'.net) > Len(rv.net) => rv'.selected = rv.selected + 1
      ]_vars

\* The uploads of a first selection of two files are in flight, and a second
\* selection of a file within the limits and one over 5 MB has issued none.
C22_Witness ==
    /\ rv.selected = 2
    /\ Len(rv.files) = 2
    /\ ~RuledOutFile(rv.files[1])
    /\ rv.files[2].type = "image/gif"
    /\ rv.files[2].size > 5 * 1024 * 1024
    /\ Len(rv.net) = 2
    /\ \A i \in 1..Len(rv.net) : rv.net[i].kind = "request"

\* -------------------------------------------- properties of SpecReviewView
\* A callback of the view takes an answer with status 401 or 403 to one of
\* its requests: the product info fetch, a photo upload, the submission.
AuthFailureTaken ==
    \/ /\ rv.infoNet # <<>>
       /\ rv.infoNet[1].kind = "response"
       /\ rv.infoNet[1].status \in {401, 403}
       /\ rv'.infoNet = <<>>
    \/ \E i \in 1..Len(rv.net) :
          /\ rv.net[i].kind = "response"
          /\ rv.net[i].status \in {401, 403}
          /\ rv'.net = RemoveAt(rv.net, i)
    \/ \E i \in 1..Len(reviewNet) :
          /\ reviewNet[i].kind = "response"
          /\ reviewNet[i].status \in {401, 403}
          /\ reviewNet' = RemoveAt(reviewNet, i)

====
